---- MODULE Spec2Model ----
(***************************************************************************)
(* Verification model of the Webstorybackend content-enrichment pipeline.  *)
(* Each component of the backend is a group of variables with its own      *)
(* specification; a component that a specification does not exercise stays *)
(* in its construction state.                                              *)
(***************************************************************************)
EXTENDS Integers, Sequences, FiniteSets, TLC

VARIABLES
    clients,        \* GroqLoadBalancer.clients: index -> [tokensUsed, isAvailable]
    currentIndex,   \* GroqLoadBalancer.currentIndex (0-based)
    lastDispatch,   \* outcome of the latest createChatCompletion call
    dispatches,     \* createChatCompletion calls made since the last reset
    groqCall,       \* the createChatCompletion calls awaiting the provider
    successTokens,  \* tokens of the successful calls since the last reset
    limited,        \* credentials the provider answers with 429 at present
    gosCache,       \* the cache entry of the key k that getOrSet is called on
    gosPc,          \* caller -> position inside getOrSet
    gosCnt,         \* caller -> number of fetchFunction invocations of its call
    gosFirst,       \* caller -> outcome of its first fetchFunction invocation
    gosLast,        \* caller -> outcome of its latest fetchFunction invocation
    gosResult,      \* caller -> what getOrSet returned ("threw" = it rejected)
    gosMissed,      \* caller -> its redis.get found k absent
    gosTotal,       \* fetchFunction invocations of all callers in this round
    gosOverlap,     \* some caller read the cache while another call was in flight
    gosAbsent0,     \* k was absent when the round of calls began
    store,          \* articles collection: id -> [section, comm], or NoDoc
    cacheArticle,   \* article:{id} -> "none" or the aiCommentary state it holds
    cacheCommentary,\* commentary:{id} exists
    sectionList,    \* section:{s}:articles, oldest id first
    sectionPage,    \* section:{s}:0:20 -> the cached article array, {} when absent
    served,         \* articles of the latest getArticlesBySection response
    queueModule,    \* which commentaryQueue module is deployed: "new" or "old"
    jobs,           \* the ai-commentary queue, in order of creation
    commentaryWrites, \* id -> writes of commentary:{id} made by the worker
    fifoList,       \* one list section:{s}:articles, oldest id first
    fifoKeys,       \* ids whose article:{id} key exists
    fifoLog,        \* the id arrays passed to manageSectionCacheFIFO so far
    fifoPc,         \* position of each call in manageSectionCacheFIFO
    fifoNew,        \* newArticleIds of each call
    fifoTotal,      \* totalCount read by each call
    fifoOldest,     \* oldestIds read by each call
    instances,      \* RedisLoadBalancer.instances: [healthy, dead, dailyRequests]
    shardData,      \* instance -> key -> the value the instance holds
    memoryCache,    \* RedisLoadBalancer.memoryCache
    redisLast,      \* the latest cache command and what it returned
    keyRoute,       \* key -> available set and instance of its latest command
    redisOps,       \* cache commands and health checks made so far
    ioStats,        \* IORedis balancer: connectionStats [healthy, dead]
    ioDaily,        \* IORedis balancer: dailyRequests
    ioLast,         \* connection of the latest command, its count before it
    currentSectionIndex, \* SectionRotationWorker.currentSectionIndex
    isRunning,      \* SectionRotationWorker.isRunning
    rotRun,         \* the processNextSection runs in progress
    rotLog,         \* the sections processed, in the order the runs began
    rotTimers,      \* ids of the setInterval timers of the worker that are active
    intervalId,     \* SectionRotationWorker.intervalId, 0 while it is null
    rotLast,        \* what the latest call on the worker was
    gateStore,      \* url -> what the articles collection holds for it
    coldStart,      \* the store began empty and every tick so far succeeded
    thresholdMet,   \* ThresholdService.thresholdMet
    gateStatus,     \* what the latest checkThreshold returned
    gateCached,     \* urls whose article:{id} key exists
    gateListed,     \* urls held by a section:{s}:articles list
    batch,          \* RedisBatchService: "stopped", "waiting" or "running"
    gatePc,         \* position of the rotation tick in fetchAndProcessSection
    gateIndex,      \* section index of the rotation worker that feeds the gate
    gateTicks,      \* ticks completed
    prioArticle,    \* the article handed to addToQueue: [createdAt, publishedDate, section]
    prioOptions,    \* options.priority of that call
    prioJob,        \* the job commentaryQueue.add received: [data, opts]
    sigPc,          \* signal -> position of its handler in server.js
    closeLog,       \* components closed so far, in the order of closing
    exited,         \* process.exit(0) was called
    lateUse,        \* <<user, adapter>>: the user ran on an adapter already closed
    shutTicks,      \* scheduler ticks and worker jobs since the first signal
    authFailed,     \* credentials that answered 401/403 since construction
    fDocs,          \* url -> aiCommentary of the documents of the collection with that url
    fCached,        \* urls whose article:{id} key the fetcher has set
    fRun,           \* run -> position and history of a fetchAndProcessSection call
    fStarts,        \* fetchAndProcessSection calls started
    procJob,        \* the job the processor runs: [articleId, attemptsMade, pc, commentary, error]
    procCache,      \* which of commentary:{id} and article:{id} exist
    procLog,        \* the writes of the processor, in order: <<target, key, source>>
    rvInstances,    \* REST variant: shard -> [healthy, dead, dailyRequests]
    rvLast,         \* REST variant: shard and outcome of the latest command
    currentKeyIndex, \* NewsdataLoadBalancer.currentKeyIndex (0-based)
    requestCounts,  \* NewsdataLoadBalancer.requestCounts: key index -> requests
    ndCall,         \* per caller: the tryAllKeys call in progress
    ndStarted,      \* tryAllKeys calls begun
    btIsRunning,    \* RedisBatchService.isRunning
    btIntervalId,   \* RedisBatchService.intervalId, 0 for null
    btTimers,       \* the setInterval timers that are alive: [id, kind]
    btNextId,       \* timers created so far
    btStopped,      \* stop() was called and start() has not been called since
    btLast,         \* the latest step of the service
    ftIteration,    \* fillThresholdWorker: iteration
    ftRetries,      \* fillThresholdWorker: retries
    ftExited,       \* process.exit(1) was called
    ftStreak,       \* passes of the loop that threw since the last that did not
    ftPasses        \* passes of the while loop so far

groqVars == <<clients, currentIndex, lastDispatch, dispatches, groqCall,
              successTokens, limited>>

gosVars == <<gosCache, gosPc, gosCnt, gosFirst, gosLast, gosResult, gosMissed,
             gosTotal, gosOverlap, gosAbsent0>>

pipeVars == <<store, cacheArticle, cacheCommentary, sectionList,
              sectionPage, served, queueModule, jobs, commentaryWrites>>

fifoVars == <<fifoList, fifoKeys, fifoLog, fifoPc, fifoNew, fifoTotal,
              fifoOldest>>

restVars == <<instances, shardData, memoryCache, redisLast, keyRoute, redisOps>>

ioVars == <<ioStats, ioDaily, ioLast>>

rotVars == <<currentSectionIndex, isRunning, rotRun, rotLog, rotTimers,
             intervalId, rotLast>>

gateVars == <<gateStore, coldStart, thresholdMet, gateStatus, gateCached,
              gateListed, batch, gatePc, gateIndex, gateTicks>>

prioVars == <<prioArticle, prioOptions, prioJob>>

shutVars == <<sigPc, closeLog, exited, lateUse, shutTicks>>

authVars == <<authFailed>>

fetchVars == <<fDocs, fCached, fRun, fStarts>>

procVars == <<procJob, procCache, procLog>>

rvVars == <<rvInstances, rvLast>>

ndVars == <<currentKeyIndex, requestCounts, ndCall, ndStarted>>

btVars == <<btIsRunning, btIntervalId, btTimers, btNextId, btStopped, btLast>>

ftVars == <<ftIteration, ftRetries, ftExited, ftStreak, ftPasses>>

vars == <<groqVars, gosVars, pipeVars, fifoVars, restVars, ioVars, rotVars,
          gateVars, prioVars,
          shutVars,
          authVars,
          fetchVars,
          procVars,
          rvVars,
          ndVars,
          btVars,
          ftVars>>

\* ---------------------------------------------------------------------------
\* Helpers
\* ---------------------------------------------------------------------------
SetMin(S) == CHOOSE x \in S : \A y \in S : x <= y

\* ---------------------------------------------------------------------------
\* Groq API load balancer (src/services/groqLoadBalancer.js)
\* ---------------------------------------------------------------------------
NumKeys == 3            \* number of configured GROQ_API_KEY* variables
MaxDispatches == 5      \* createChatCompletion calls explored per UTC day
MaxInFlight == 1        \* createChatCompletion calls awaiting the provider

dailyLimit == 100000
SafetyMargin == 5000
DefaultTokens == 600

\* response.usage.total_tokens as reported by the provider; 0 stands for a
\* response without a usage block
UsageChoices == {0, 60000}

KeyIdx == 0 .. (NumKeys - 1)
GroqCalls == 1 .. MaxInFlight

\* "response.usage?.total_tokens || 600"
ObservedTokens(usage) == IF usage = 0 THEN DefaultTokens ELSE usage

\* the test of getClient on one client
Eligible(c) == c.isAvailable /\ c.tokensUsed < dailyLimit - SafetyMargin

\* getClient: scan from currentIndex, advancing the index past every client
\* examined; the first eligible client is returned.  When the scan comes back
\* to its start, clients[0] is returned and the index is where it started.
GetClient(cl, cur) ==
    LET order == [i \in 1 .. NumKeys |-> (cur + i - 1) % NumKeys]
        hits  == {i \in 1 .. NumKeys : Eligible(cl[order[i]])}
    IN  IF hits = {}
        THEN [idx |-> 0, next |-> cur, eligible |-> FALSE]
        ELSE [idx |-> order[SetMin(hits)],
              next |-> (order[SetMin(hits)] + 1) % NumKeys,
              eligible |-> TRUE]

\* getStats().totalTokensUsed
RECURSIVE SumTokens(_, _)
SumTokens(cl, n) ==
    IF n = 0 THEN 0 ELSE cl[n - 1].tokensUsed + SumTokens(cl, n - 1)
totalTokensUsed == SumTokens(clients, NumKeys)

\* a call that is not in progress
NoCall == [pc |-> "idle", idx |-> 0, eligible |-> TRUE]
NoDispatch ==
    [result |-> "none", served |-> -1, rateLimited |-> FALSE,
     servable |-> FALSE]

GroqInit ==
    /\ clients = [i \in KeyIdx |-> [tokensUsed |-> 0, isAvailable |-> TRUE]]
    /\ currentIndex = 0
    /\ lastDispatch = NoDispatch
    /\ dispatches = 0
    /\ groqCall = [p \in GroqCalls |-> NoCall]
    /\ successTokens = 0
    /\ limited = {}

\* the model explores at most MaxDispatches calls between two resets
DispatchAllowed == dispatches < MaxDispatches

\* the provider starts or stops answering some credentials with 429
ProviderLimits(S) ==
    /\ S # limited
    /\ limited' = S
    /\ UNCHANGED <<clients, currentIndex, lastDispatch, dispatches, groqCall,
                   successTokens>>

\* createChatCompletion up to its first await: getClient, then the request
\* is sent
DispatchStart(p) ==
    LET sel == GetClient(clients, currentIndex)
    IN  /\ DispatchAllowed
        /\ groqCall[p].pc = "idle"
        /\ dispatches' = dispatches + 1
        /\ currentIndex' = sel.next
        /\ groqCall' = [groqCall EXCEPT ![p] =
              [pc |-> "first", idx |-> sel.idx, eligible |-> sel.eligible]]
        /\ UNCHANGED <<clients, lastDispatch, successTokens, limited>>

\* the first request succeeds: the tokens are added to the client
DispatchOk(p, usage) ==
    LET c == groqCall[p]
        t == ObservedTokens(usage)
    IN  /\ c.pc = "first"
        /\ c.idx \notin limited
        /\ clients' = [clients EXCEPT ![c.idx].tokensUsed = @ + t]
        /\ successTokens' = successTokens + t
        /\ lastDispatch' = [result |-> "ok", served |-> c.idx,
                            rateLimited |-> FALSE, servable |-> FALSE]
        /\ groqCall' = [groqCall EXCEPT ![p] = NoCall]
        /\ UNCHANGED <<currentIndex, dispatches, limited>>

\* the first request answers 429 / rate_limit: the client is marked
\* unavailable and getClient is called again; the same client again means
\* RATE_LIMIT_ALL_KEYS, another client means a second request
DispatchRateLimited(p) ==
    LET c    == groqCall[p]
        cl1  == [clients EXCEPT ![c.idx].isAvailable = FALSE]
        sel2 == GetClient(cl1, currentIndex)
    IN  /\ c.pc = "first"
        /\ c.idx \in limited
        /\ clients' = cl1
        /\ currentIndex' = sel2.next
        /\ IF sel2.idx = c.idx
           THEN /\ lastDispatch' =
                     [result |-> "RATE_LIMIT_ALL_KEYS", served |-> -1,
                      rateLimited |-> TRUE,
                      servable |-> \E i \in KeyIdx :
                                      Eligible(cl1[i]) /\ i \notin limited]
                /\ groqCall' = [groqCall EXCEPT ![p] = NoCall]
           ELSE /\ groqCall' = [groqCall EXCEPT ![p].pc = "retry",
                                                ![p].idx = sel2.idx]
                /\ UNCHANGED lastDispatch
        /\ UNCHANGED <<dispatches, successTokens, limited>>

\* the second request returns: its response is handed to the caller as it
\* is (no token tracking), its error is thrown as it is
RetryDone(p, ok, usage) ==
    LET c == groqCall[p]
        t == ObservedTokens(usage)
        success == ok /\ c.idx \notin limited
    IN  /\ c.pc = "retry"
        /\ successTokens' = IF success THEN successTokens + t
                            ELSE successTokens
        /\ lastDispatch' =
              IF success
              THEN [result |-> "ok", served |-> c.idx,
                    rateLimited |-> TRUE, servable |-> TRUE]
              ELSE [result |-> "error", served |-> -1,
                    rateLimited |-> TRUE,
                    servable |-> /\ c.idx \in limited
                                 /\ \E i \in KeyIdx :
                                       /\ Eligible(clients[i])
                                       /\ i \notin limited]
        /\ groqCall' = [groqCall EXCEPT ![p] = NoCall]
        /\ UNCHANGED <<clients, currentIndex, dispatches, limited>>

\* the first request throws any other error, which is rethrown
DispatchError(p) ==
    LET c == groqCall[p]
    IN  /\ c.pc = "first"
        /\ c.idx \notin limited
        /\ lastDispatch' = [result |-> "error", served |-> -1,
                            rateLimited |-> FALSE, servable |-> FALSE]
        /\ groqCall' = [groqCall EXCEPT ![p] = NoCall]
        /\ UNCHANGED <<clients, currentIndex, dispatches, successTokens,
                       limited>>

\* resetCounters, run by the midnight-UTC timer of scheduleReset
resetCounters ==
    /\ clients' = [i \in KeyIdx |-> [tokensUsed |-> 0, isAvailable |-> TRUE]]
    /\ dispatches' = 0
    /\ successTokens' = 0
    /\ UNCHANGED <<currentIndex, lastDispatch, groqCall, limited>>

\* the balancer before any dispatch (the state GroqInit describes)
GroqIdle == GroqInit

\* ---------------------------------------------------------------------------
\* CacheService.getOrSet (src/unnamed/part_008, identical in part_009)
\* ---------------------------------------------------------------------------
NumCallers == 2         \* concurrent getOrSet calls on the same key

Callers == 1 .. NumCallers
FetchValues == {"v1", "v2"}     \* values a fetchFunction invocation may produce

GosStart ==
    /\ gosPc = [p \in Callers |-> "start"]
    /\ gosCnt = [p \in Callers |-> 0]
    /\ gosFirst = [p \in Callers |-> "none"]
    /\ gosLast = [p \in Callers |-> "none"]
    /\ gosResult = [p \in Callers |-> "none"]
    /\ gosMissed = [p \in Callers |-> FALSE]
    /\ gosTotal = 0
    /\ gosOverlap = FALSE

\* the cache holds k or not when the calls arrive
GosInit ==
    /\ gosCache \in {"absent"} \cup FetchValues
    /\ gosAbsent0 = (gosCache = "absent")
    /\ GosStart

GosIdle ==
    /\ gosCache = "absent"
    /\ gosAbsent0 = TRUE
    /\ GosStart

GosInFlight(p) == gosPc[p] \notin {"start", "done"}

\* "const cachedData = await redis.get(key)": the command rejects (ioredis
\* connection), or answers the entry, or answers null
GosGet(p, readOk) ==
    /\ gosPc[p] = "start"
    /\ gosOverlap' = (gosOverlap \/ \E q \in Callers \ {p} : GosInFlight(q))
    /\ IF ~readOk
       THEN /\ gosPc' = [gosPc EXCEPT ![p] = "catch"]
            /\ UNCHANGED <<gosResult, gosMissed>>
       ELSE IF gosCache # "absent"
            THEN /\ gosPc' = [gosPc EXCEPT ![p] = "done"]
                 /\ gosResult' = [gosResult EXCEPT ![p] = gosCache]
                 /\ UNCHANGED gosMissed
            ELSE /\ gosPc' = [gosPc EXCEPT ![p] = "fetch"]
                 /\ gosMissed' = [gosMissed EXCEPT ![p] = TRUE]
                 /\ UNCHANGED gosResult
    /\ UNCHANGED <<gosCache, gosCnt, gosFirst, gosLast, gosTotal, gosAbsent0>>

\* "const freshData = await fetchFunction()" inside the try block
GosFetch(p, r) ==
    /\ gosPc[p] = "fetch"
    /\ gosCnt' = [gosCnt EXCEPT ![p] = @ + 1]
    /\ gosTotal' = gosTotal + 1
    /\ gosFirst' = [gosFirst EXCEPT ![p] = r]
    /\ gosLast' = [gosLast EXCEPT ![p] = r]
    /\ gosPc' = [gosPc EXCEPT ![p] = IF r = "throw" THEN "catch" ELSE "setex"]
    /\ UNCHANGED <<gosCache, gosResult, gosMissed, gosOverlap, gosAbsent0>>

\* "await redis.setex(key, ttlSeconds, dataToCache); return freshData"
GosSetex(p, writeOk) ==
    /\ gosPc[p] = "setex"
    /\ IF writeOk
       THEN /\ gosCache' = gosFirst[p]
            /\ gosResult' = [gosResult EXCEPT ![p] = gosFirst[p]]
            /\ gosPc' = [gosPc EXCEPT ![p] = "done"]
       ELSE /\ gosPc' = [gosPc EXCEPT ![p] = "catch"]
            /\ UNCHANGED <<gosCache, gosResult>>
    /\ UNCHANGED <<gosCnt, gosFirst, gosLast, gosMissed, gosTotal, gosOverlap,
                   gosAbsent0>>

\* the catch block: "return await fetchFunction()", rethrowing its error
GosCatchFetch(p, r) ==
    /\ gosPc[p] = "catch"
    /\ gosCnt' = [gosCnt EXCEPT ![p] = @ + 1]
    /\ gosTotal' = gosTotal + 1
    /\ gosFirst' = [gosFirst EXCEPT ![p] = IF @ = "none" THEN r ELSE @]
    /\ gosLast' = [gosLast EXCEPT ![p] = r]
    /\ gosResult' = [gosResult EXCEPT ![p] = IF r = "throw" THEN "threw" ELSE r]
    /\ gosPc' = [gosPc EXCEPT ![p] = "done"]
    /\ UNCHANGED <<gosCache, gosMissed, gosOverlap, gosAbsent0>>

\* all calls have returned; the next calls arrive, the entry having expired
\* (setex TTL) or not
GosNewRound(expired) ==
    /\ \A p \in Callers : gosPc[p] = "done"
    /\ gosCache' = IF expired THEN "absent" ELSE gosCache
    /\ gosAbsent0' = (gosCache' = "absent")
    /\ gosPc' = [p \in Callers |-> "start"]
    /\ gosCnt' = [p \in Callers |-> 0]
    /\ gosFirst' = [p \in Callers |-> "none"]
    /\ gosLast' = [p \in Callers |-> "none"]
    /\ gosResult' = [p \in Callers |-> "none"]
    /\ gosMissed' = [p \in Callers |-> FALSE]
    /\ gosTotal' = 0
    /\ gosOverlap' = FALSE

\* ---------------------------------------------------------------------------
\* Document store, cache keys, publishers, read paths, queue and worker
\* ---------------------------------------------------------------------------
MaxJobs == 2            \* jobs the queue holds in the model
MaxListLen == 3         \* the publisher is explored until a list is this long

SectionCap == 20
Attempts == 3
Concurrency == 2

ArticleIds == {"a1", "a2"}
Sections == {"world", "technology"}

\* the forms the aiCommentary field of a stored document takes
Comm == {"absent", "null", "empty", "text"}
\* no document with this id
NoDoc == [section |-> "none", comm |-> "absent"]
StoreDocs == {NoDoc} \cup [section : Sections, comm : Comm]

\* JavaScript truthiness of aiCommentary
Truthy(c) == c = "text"

\* { $exists: true, $ne: null, $ne: '' }: the object literal repeats the key
\* $ne and keeps the last one, so the filter sent is { $exists: true, $ne: '' }
CommentaryFilter(c) == c # "absent" /\ c # "empty"

\* { $exists: true, $ne: null } of refreshCache
RefreshFilter(c) == c # "absent" /\ c # "null"

Range(seq) == {seq[i] : i \in 1 .. Len(seq)}

\* ids in a fixed order (the sort by publishedDate of the queries)
IdOrder == <<"a1", "a2">>
IdsInOrder(S) == SelectSeq(IdOrder, LAMBDA id : id \in S)

\* Article.find({section, aiCommentary: filter})
FindBySection(st, s) ==
    {id \in ArticleIds : st[id] # NoDoc /\ st[id].section = s
                          /\ CommentaryFilter(st[id].comm)}

\* manageSectionCacheFIFO run without interruption: the list after rpush and
\* ltrim, and the ids whose article key is deleted
FifoList(list, ids, cap) ==
    LET all == list \o ids
    IN  IF Len(all) > cap THEN SubSeq(all, Len(all) - cap + 1, Len(all)) ELSE all
FifoEvicted(list, ids, cap) ==
    LET all == list \o ids
    IN  IF Len(all) > cap THEN {all[i] : i \in 1 .. (Len(all) - cap)} ELSE {}

\* updateArticleById(id, {aiCommentary: text}): changes the document if there
\* is one
UpdateArticleById(st, id) ==
    IF st[id] = NoDoc THEN st ELSE [st EXCEPT ![id].comm = "text"]

NoJobs == <<>>

PipeStart ==
    /\ cacheArticle = [id \in ArticleIds |-> "none"]
    /\ cacheCommentary = [id \in ArticleIds |-> FALSE]
    /\ sectionList = [s \in Sections |-> <<>>]
    /\ sectionPage = [s \in Sections |-> {}]
    /\ served = {}
    /\ jobs = NoJobs
    /\ commentaryWrites = [id \in ArticleIds |-> 0]

\* the store is a database that outlives the process: at start it holds any
\* documents; the cache starts empty
CacheInit ==
    /\ store \in [ArticleIds -> StoreDocs]
    /\ queueModule = "new"
    /\ PipeStart

\* the queue code reads aiCommentary only, so one section is enough here;
\* either commentaryQueue module may be the one deployed
QueueInit ==
    /\ store \in [ArticleIds -> {d \in StoreDocs : d.section \in {"none", "world"}}]
    /\ queueModule \in {"new", "old"}
    /\ PipeStart

PipeIdle ==
    /\ store = [id \in ArticleIds |-> NoDoc]
    /\ queueModule = "new"
    /\ PipeStart

\* ---- RedisBatchService.updateSection ------------------------------------
updateSection(s) ==
    LET fresh == FindBySection(store, s)
        ids   == IdsInOrder(fresh)
    IN  /\ fresh # {}
        /\ Len(sectionList[s]) < MaxListLen
        /\ cacheArticle' =
              [id \in ArticleIds |->
                  IF id \in FifoEvicted(sectionList[s], ids, SectionCap)
                  THEN "none"
                  ELSE IF id \in fresh /\ cacheArticle[id] = "none"
                       THEN store[id].comm
                       ELSE cacheArticle[id]]
        /\ sectionList' =
              [sectionList EXCEPT ![s] = FifoList(@, ids, SectionCap)]
        /\ UNCHANGED <<store, cacheCommentary, sectionPage,
                       served, queueModule, jobs, commentaryWrites>>

\* ---- RedisRefreshService.refreshCache -----------------------------------
refreshCache ==
    LET found == {id \in ArticleIds :
                     store[id] # NoDoc /\ RefreshFilter(store[id].comm)}
    IN  /\ found # {}
        /\ cacheArticle' = [id \in ArticleIds |->
                               IF id \in found THEN store[id].comm
                               ELSE cacheArticle[id]]
        /\ UNCHANGED <<store, cacheCommentary, sectionList,
                       sectionPage, served, queueModule, jobs,
                       commentaryWrites>>

\* ---- SectionArticleService.getArticlesBySection(s, 20, 0) -----------------
getArticlesBySection(s) ==
    LET found == {<<id, store[id].comm>> : id \in FindBySection(store, s)}
    IN  /\ IF sectionPage[s] # {}
           THEN /\ served' = sectionPage[s]
                /\ UNCHANGED sectionPage
           ELSE /\ served' = found
                /\ sectionPage' = IF found # {}
                                  THEN [sectionPage EXCEPT ![s] = found]
                                  ELSE sectionPage
        /\ UNCHANGED <<store, cacheArticle, cacheCommentary,
                       sectionList, queueModule, jobs, commentaryWrites>>

\* ---- TTL expiry of cache keys ---------------------------------------------
ExpireArticle(id) ==
    /\ cacheArticle[id] # "none"
    /\ cacheArticle' = [cacheArticle EXCEPT ![id] = "none"]
    /\ UNCHANGED <<store, cacheCommentary, sectionList, sectionPage, served,
                   queueModule, jobs, commentaryWrites>>

ExpireCommentary(id) ==
    /\ cacheCommentary[id]
    /\ cacheCommentary' = [cacheCommentary EXCEPT ![id] = FALSE]
    /\ UNCHANGED <<store, cacheArticle, sectionList, sectionPage, served,
                   queueModule, jobs, commentaryWrites>>

ExpirePage(s) ==
    /\ sectionPage[s] # {}
    /\ sectionPage' = [sectionPage EXCEPT ![s] = {}]
    /\ UNCHANGED <<store, cacheArticle, cacheCommentary, sectionList, served,
                   queueModule, jobs, commentaryWrites>>

\* ---- ArticleFetcherService.fetchAndProcessSection(s, 1) -----------------
\* one raw article (id) of section s is processed, then clearSectionCache
\* runs: CacheService.keys() takes no pattern and returns every key, and each
\* of them is deleted
fetchAndProcessSection(s, id, aiOk) ==
    LET skip   == store[id] # NoDoc /\ Truthy(store[id].comm)
        saved  == ~skip /\ aiOk
        store2 == IF saved
                  THEN [store EXCEPT ![id] = [section |-> s, comm |-> "text"]]
                  ELSE store
    IN  /\ store' = store2
        /\ cacheArticle' = [i \in ArticleIds |-> "none"]
        /\ cacheCommentary' = [i \in ArticleIds |-> FALSE]
        /\ sectionList' = [t \in Sections |-> <<>>]
        /\ sectionPage' = [t \in Sections |-> {}]
        /\ UNCHANGED <<served, queueModule, jobs,
                       commentaryWrites>>

\* ---- commentaryQueue.addToQueue -------------------------------------------
JobId(id) ==
    \* "commentary-" + id in the newer module, a number the queue generates in
    \* the older one, which passes no jobId
    IF queueModule = "new" THEN [custom |-> id, auto |-> 0]
    ELSE [custom |-> "", auto |-> Len(jobs) + 1]

NewJob(id) ==
    [jobId |-> JobId(id), articleId |-> id, state |-> "waiting",
     attemptsMade |-> 0, lookup |-> "none"]

\* Queue.add: a job whose jobId the queue already holds is not added
QueueAdd(q, job) ==
    IF \E i \in 1 .. Len(q) : q[i].jobId = job.jobId THEN q
    ELSE Append(q, job)

\* an article object that carries neither _id nor id
NoId == "none"
\* Article.findById(articleId) resolves, or rejects and is caught
LookupOutcomes == {"ok", "threw"}

\* `existing` after the try block: undefined when findById rejected
AddToQueueEffect(id, lookup) ==
    LET existing == IF lookup = "ok" THEN store[id] ELSE NoDoc
    IN  IF existing # NoDoc /\ Truthy(existing.comm)
        THEN UNCHANGED <<store, jobs>>
        ELSE IF cacheCommentary[id]
             THEN /\ store' = IF existing # NoDoc
                               THEN UpdateArticleById(store, id) ELSE store
                  /\ UNCHANGED jobs
             ELSE /\ jobs' = QueueAdd(jobs, NewJob(id))
                  /\ UNCHANGED store

addToQueue(id, lookup) ==
    /\ IF id = NoId
       THEN UNCHANGED <<store, jobs>>
       ELSE Len(jobs) < MaxJobs /\ AddToQueueEffect(id, lookup)
    /\ UNCHANGED <<cacheArticle, cacheCommentary, sectionList,
                   sectionPage, served, queueModule, commentaryWrites>>

\* ---- GET /api/articles/:id?ai=true ------------------------------------------
ReadArticle(id) ==
    /\ store[id] # NoDoc
    /\ Truthy(store[id].comm) \/ Len(jobs) < MaxJobs
    /\ IF Truthy(store[id].comm)
       THEN /\ cacheArticle' = [cacheArticle EXCEPT ![id] = store[id].comm]
            /\ UNCHANGED <<store, jobs>>
       ELSE /\ \E lookup \in LookupOutcomes : AddToQueueEffect(id, lookup)
            /\ UNCHANGED cacheArticle
    /\ UNCHANGED <<cacheCommentary, sectionList, sectionPage,
                   served, queueModule, commentaryWrites>>

\* ---- the worker ---------------------------------------------------------------
JobIdx == 1 .. Len(jobs)
ActiveCount == Cardinality({i \in JobIdx : jobs[i].state = "active"})

\* the worker takes a waiting job
WorkerTake(i) ==
    /\ jobs[i].state = "waiting"
    /\ ActiveCount < Concurrency
    /\ jobs' = [jobs EXCEPT ![i].state = "active", ![i].lookup = "none"]
    /\ UNCHANGED <<store, cacheArticle, cacheCommentary,
                   sectionList, sectionPage, served, queueModule,
                   commentaryWrites>>

\* the backoff delay of a failed attempt has passed
PromoteDelayed(i) ==
    /\ jobs[i].state = "delayed"
    /\ jobs' = [jobs EXCEPT ![i].state = "waiting"]
    /\ UNCHANGED <<store, cacheArticle, cacheCommentary,
                   sectionList, sectionPage, served, queueModule,
                   commentaryWrites>>

\* getOrSet(commentary:{id}, ...): the read of the key
WorkerLookup(i) ==
    /\ jobs[i].state = "active"
    /\ jobs[i].lookup = "none"
    /\ jobs' = [jobs EXCEPT ![i].lookup =
                   IF cacheCommentary[jobs[i].articleId] THEN "hit" ELSE "miss"]
    /\ UNCHANGED <<store, cacheArticle, cacheCommentary,
                   sectionList, sectionPage, served, queueModule,
                   commentaryWrites>>

AiOutcomes == {"ok", "rateLimit", "error"}

\* the rest of the processor: generation on a miss (ai1), the second
\* generation getOrSet makes in its catch block when the first one threw
\* (ai2), the write of article:{id}, the store update, and the catch block of
\* the processor
WorkerFinish(i, ai1, ai2) ==
    LET id       == jobs[i].articleId
        hit      == jobs[i].lookup = "hit"
        cached   == ~hit /\ ai1 = "ok"
        obtained == hit \/ ai1 = "ok" \/ ai2 = "ok"
        lastTry  == jobs[i].attemptsMade >= Attempts - 1
        fallback == ~obtained /\ ai2 # "rateLimit" /\ lastTry
    IN  /\ jobs[i].state = "active"
        /\ jobs[i].lookup # "none"
        /\ cacheCommentary' = IF cached \/ fallback
                              THEN [cacheCommentary EXCEPT ![id] = TRUE]
                              ELSE cacheCommentary
        /\ commentaryWrites' = IF cached \/ fallback
                               THEN [commentaryWrites EXCEPT ![id] = @ + 1]
                               ELSE commentaryWrites
        /\ cacheArticle' = IF obtained
                           THEN [cacheArticle EXCEPT ![id] = "text"]
                           ELSE cacheArticle
        /\ store' = IF obtained \/ fallback
                    THEN UpdateArticleById(store, id)
                    ELSE store
        /\ jobs' = IF obtained \/ fallback
                   THEN [jobs EXCEPT ![i].state = "completed"]
                   ELSE [jobs EXCEPT
                           ![i].attemptsMade = @ + 1,
                           ![i].state = IF lastTry THEN "failed"
                                        ELSE "delayed"]
        /\ UNCHANGED <<sectionList, sectionPage, served,
                       queueModule>>

\* ---------------------------------------------------------------------------
\* CacheService.manageSectionCacheFIFO, called by two overlapping updates of
\* one section
\* ---------------------------------------------------------------------------
FifoCap == 3            \* maxArticles of the calls
MaxPushes == 3          \* calls of manageSectionCacheFIFO explored

Updaters == {1, 2}
FifoIds == {"a", "b", "c", "d"}

\* newArticleIds: the ids of one query result, hence distinct within a call
PushChoices ==
    {<<x>> : x \in FifoIds}
      \cup {<<"a", "b">>, <<"c", "d">>, <<"a", "b", "c">>,
            <<"a", "b", "c", "d">>}

\* LTRIM key n -1
Ltrim(list, n) ==
    IF n >= Len(list) THEN <<>> ELSE SubSeq(list, n + 1, Len(list))

\* LRANGE key 0 n-1
Lrange0(list, n) ==
    SubSeq(list, 1, IF n <= Len(list) THEN n ELSE Len(list))

FifoInit ==
    /\ fifoList = <<>>
    /\ fifoKeys = {}
    /\ fifoLog = <<>>
    /\ fifoPc = [u \in Updaters |-> "idle"]
    /\ fifoNew = [u \in Updaters |-> <<>>]
    /\ fifoTotal = [u \in Updaters |-> 0]
    /\ fifoOldest = [u \in Updaters |-> <<>>]

FifoIdle == FifoInit

FifoQuiet == \A u \in Updaters : fifoPc[u] = "idle"

\* updateSection caches article:{id} for the ids it found, then enters
\* manageSectionCacheFIFO with them
FifoBegin(u, ids) ==
    /\ fifoPc[u] = "idle"
    /\ Len(fifoLog) < MaxPushes
    /\ fifoLog' = Append(fifoLog, ids)
    /\ fifoKeys' = fifoKeys \cup Range(ids)
    /\ fifoNew' = [fifoNew EXCEPT ![u] = ids]
    /\ fifoPc' = [fifoPc EXCEPT ![u] = "rpush"]
    /\ UNCHANGED <<fifoList, fifoTotal, fifoOldest>>

\* redis.rpush(sectionKey, ...newArticleIds)
FifoRpush(u) ==
    /\ fifoPc[u] = "rpush"
    /\ fifoList' = fifoList \o fifoNew[u]
    /\ fifoPc' = [fifoPc EXCEPT ![u] = "llen"]
    /\ UNCHANGED <<fifoKeys, fifoLog, fifoNew, fifoTotal, fifoOldest>>

\* totalCount = redis.llen(sectionKey), and the comparison with maxArticles
FifoLlen(u) ==
    /\ fifoPc[u] = "llen"
    /\ IF Len(fifoList) > FifoCap
       THEN /\ fifoTotal' = [fifoTotal EXCEPT ![u] = Len(fifoList)]
            /\ fifoPc' = [fifoPc EXCEPT ![u] = "lrange"]
            /\ UNCHANGED fifoNew
       ELSE /\ fifoTotal' = [fifoTotal EXCEPT ![u] = 0]
            /\ fifoPc' = [fifoPc EXCEPT ![u] = "idle"]
            /\ fifoNew' = [fifoNew EXCEPT ![u] = <<>>]
    /\ UNCHANGED <<fifoList, fifoKeys, fifoLog, fifoOldest>>

\* oldestIds = redis.lrange(sectionKey, 0, toRemove - 1)
FifoLrange(u) ==
    /\ fifoPc[u] = "lrange"
    /\ fifoOldest' = [fifoOldest EXCEPT ![u] =
                         Lrange0(fifoList, fifoTotal[u] - FifoCap)]
    /\ fifoPc' = [fifoPc EXCEPT ![u] = "ltrim"]
    /\ UNCHANGED <<fifoList, fifoKeys, fifoLog, fifoNew, fifoTotal>>

\* redis.ltrim(sectionKey, toRemove, -1)
FifoLtrim(u) ==
    /\ fifoPc[u] = "ltrim"
    /\ fifoList' = Ltrim(fifoList, fifoTotal[u] - FifoCap)
    /\ fifoPc' = [fifoPc EXCEPT ![u] = "del"]
    /\ UNCHANGED <<fifoKeys, fifoLog, fifoNew, fifoTotal, fifoOldest>>

\* redis.del(article:{id}) for every id of oldestIds
FifoDel(u) ==
    /\ fifoPc[u] = "del"
    /\ fifoKeys' = fifoKeys \ Range(fifoOldest[u])
    /\ fifoPc' = [fifoPc EXCEPT ![u] = "idle"]
    /\ fifoTotal' = [fifoTotal EXCEPT ![u] = 0]
    /\ fifoOldest' = [fifoOldest EXCEPT ![u] = <<>>]
    /\ fifoNew' = [fifoNew EXCEPT ![u] = <<>>]
    /\ UNCHANGED <<fifoList, fifoLog>>

\* ---------------------------------------------------------------------------
\* RedisLoadBalancer over the Upstash REST API (src/unnamed/part_001)
\* ---------------------------------------------------------------------------
NumShards == 2
DAILY_LIMIT_PER_INSTANCE == 2
MaxRedisOps == 4

Shards == 1 .. NumShards

\* the keys "a" and "b" as their character codes; keys this short stay far
\* below the length at which the 32-bit wrap of the hash begins
RedisKeys == {<<97>>, <<98>>}
RedisValues == {"v1", "v2"}
NoValue == "null"
RestOutcomes == {"ok", "error", "limit"}
PingOutcomes == {"pong", "limit", "error"}
DelChoices == {<<k>> : k \in RedisKeys} \cup
              {<<k[1], k[2]>> : k \in {q \in RedisKeys \X RedisKeys : q[1] # q[2]}}

Abs(x) == IF x < 0 THEN -x ELSE x

\* hash = ((hash << 5) - hash) + key.charCodeAt(i), over the first n characters
RECURSIVE hashKey(_, _)
hashKey(key, n) ==
    IF n = 0 THEN 0 ELSE (32 * hashKey(key, n - 1) - hashKey(key, n - 1)) + key[n]

\* the instances an operation may be routed to, in configuration order
available(inst) ==
    SelectSeq([i \in Shards |-> i],
              LAMBDA i : /\ inst[i].healthy
                         /\ ~inst[i].dead
                         /\ inst[i].dailyRequests < DAILY_LIMIT_PER_INSTANCE)

checkDailyReset(inst, newDay) ==
    IF newDay
    THEN [i \in Shards |-> [inst[i] EXCEPT !.dailyRequests = 0, !.dead = FALSE]]
    ELSE inst

\* the instance chosen for a key, 0 when none is available
getInstanceForKey(inst, key) ==
    LET av == available(inst)
    IN  IF Len(av) = 0 THEN 0
        ELSE av[(Abs(hashKey(key, Len(key))) % Len(av)) + 1]

\* the available instance with the lowest dailyRequests, the first of equals
getInstanceEvenDistribution(inst) ==
    LET av == Range(available(inst))
    IN  IF av = {} THEN 0
        ELSE CHOOSE i \in av : \A j \in av :
                 \/ inst[i].dailyRequests < inst[j].dailyRequests
                 \/ inst[i].dailyRequests = inst[j].dailyRequests /\ i <= j

\* selected.dailyRequests++, then the REST call: a provider answer of
\* 'max requests limit exceeded' marks the instance dead and unhealthy
restCall(inst, s, out) ==
    IF s = 0 THEN inst
    ELSE [inst EXCEPT ![s] =
             [healthy |-> IF out = "limit" THEN FALSE ELSE @.healthy,
              dead |-> IF out = "limit" THEN TRUE ELSE @.dead,
              dailyRequests |-> @.dailyRequests + 1]]

\* getStats().instances
getStats ==
    [i \in Shards |->
        [healthy |-> instances[i].healthy,
         dead |-> instances[i].dead,
         dailyRequests |-> instances[i].dailyRequests,
         dailyRemaining |-> DAILY_LIMIT_PER_INSTANCE - instances[i].dailyRequests]]

NoOp == [op |-> "none", key |-> <<>>, value |-> NoValue, shard |-> 0,
         result |-> NoValue]
NoRoute == [avail |-> {}, shard |-> 0]

RestInit ==
    /\ instances = [i \in Shards |->
                       [healthy |-> FALSE, dead |-> FALSE, dailyRequests |-> 0]]
    /\ shardData = [i \in Shards |-> [k \in RedisKeys |-> NoValue]]
    /\ memoryCache = [k \in RedisKeys |-> NoValue]
    /\ redisLast = NoOp
    /\ keyRoute = [k \in RedisKeys |-> NoRoute]
    /\ redisOps = 0

RestIdle == RestInit

Routed(inst0, ks, s) ==
    [k \in RedisKeys |->
        IF k \in Range(ks)
        THEN [avail |-> Range(available(inst0)), shard |-> s]
        ELSE keyRoute[k]]

\* _runHealthCheck: pings every instance
runHealthCheck(newDay, pings) ==
    /\ redisOps < MaxRedisOps
    /\ redisOps' = redisOps + 1
    /\ instances' =
          [i \in Shards |->
              LET r == checkDailyReset(instances, newDay)[i]
              IN  IF pings[i] = "pong"
                  THEN [r EXCEPT !.healthy = TRUE, !.dead = FALSE]
                  ELSE IF pings[i] = "limit"
                  THEN [r EXCEPT !.healthy = FALSE, !.dead = TRUE]
                  ELSE [r EXCEPT !.healthy = FALSE]]
    /\ redisLast' = NoOp
    /\ UNCHANGED <<shardData, memoryCache, keyRoute>>

\* setex(key, seconds, value)
setex(key, value, newDay, out) ==
    LET inst0 == checkDailyReset(instances, newDay)
        s == getInstanceForKey(inst0, key)
    IN  /\ redisOps < MaxRedisOps
        /\ redisOps' = redisOps + 1
        /\ memoryCache' = [memoryCache EXCEPT ![key] = value]
        /\ instances' = restCall(inst0, s, out)
        /\ shardData' = IF s # 0 /\ out = "ok"
                        THEN [shardData EXCEPT ![s][key] = value]
                        ELSE shardData
        /\ keyRoute' = Routed(inst0, <<key>>, s)
        /\ redisLast' = [op |-> "setex", key |-> key, value |-> value,
                         shard |-> s, result |-> "OK"]

\* get(key): result ?? memoryCache.get(key) ?? null
get(key, newDay, out) ==
    LET inst0 == checkDailyReset(instances, newDay)
        s == getInstanceForKey(inst0, key)
        remote == IF s # 0 /\ out = "ok" THEN shardData[s][key] ELSE NoValue
    IN  /\ redisOps < MaxRedisOps
        /\ redisOps' = redisOps + 1
        /\ instances' = restCall(inst0, s, out)
        /\ keyRoute' = Routed(inst0, <<key>>, s)
        /\ redisLast' =
              [op |-> "get", key |-> key,
               value |-> IF redisLast.op = "setex" /\ redisLast.key = key
                         THEN redisLast.value ELSE NoValue,
               shard |-> s,
               result |-> IF remote # NoValue THEN remote ELSE memoryCache[key]]
        /\ UNCHANGED <<shardData, memoryCache>>

\* del(...keys): one command, routed by keys[0]
del(keys, newDay, out) ==
    LET inst0 == checkDailyReset(instances, newDay)
        s == getInstanceForKey(inst0, keys[1])
    IN  /\ redisOps < MaxRedisOps
        /\ redisOps' = redisOps + 1
        /\ memoryCache' = [k \in RedisKeys |->
                              IF k \in Range(keys) THEN NoValue ELSE memoryCache[k]]
        /\ instances' = restCall(inst0, s, out)
        /\ shardData' = IF s # 0 /\ out = "ok"
                        THEN [shardData EXCEPT ![s] =
                                 [k \in RedisKeys |->
                                     IF k \in Range(keys) THEN NoValue ELSE @[k]]]
                        ELSE shardData
        /\ keyRoute' = Routed(inst0, keys, s)
        /\ redisLast' = [op |-> "del", key |-> keys[1], value |-> NoValue,
                         shard |-> s, result |-> NoValue]

\* ping(): a command without a key, sent to the least used instance
ping(newDay, out) ==
    LET inst0 == checkDailyReset(instances, newDay)
        s == getInstanceEvenDistribution(inst0)
    IN  /\ redisOps < MaxRedisOps
        /\ redisOps' = redisOps + 1
        /\ instances' = restCall(inst0, s, out)
        /\ redisLast' = [op |-> "ping", key |-> <<>>, value |-> NoValue,
                         shard |-> s, result |-> "PONG"]
        /\ UNCHANGED <<shardData, memoryCache, keyRoute>>

\* the setTimeout of setex deletes the key from memoryCache
MemoryTimer(key) ==
    /\ memoryCache[key] # NoValue
    /\ memoryCache' = [memoryCache EXCEPT ![key] = NoValue]
    /\ redisLast' = NoOp
    /\ UNCHANGED <<instances, shardData, keyRoute, redisOps>>

\* the TTL given to setex runs out on the instance that holds the key
ShardExpire(s, key) ==
    /\ shardData[s][key] # NoValue
    /\ shardData' = [shardData EXCEPT ![s][key] = NoValue]
    /\ redisLast' = NoOp
    /\ UNCHANGED <<instances, memoryCache, keyRoute, redisOps>>

\* ---------------------------------------------------------------------------
\* RedisLoadBalancer over IORedis connections (src/unnamed/part_002)
\* ---------------------------------------------------------------------------
IoMaxCount == 4

ioCheckDailyReset(st, newDay) ==
    IF newDay
    THEN [i \in Shards |->
             IF st[i].dead THEN [healthy |-> TRUE, dead |-> FALSE] ELSE st[i]]
    ELSE st

ioUsable(st, daily, i) ==
    /\ ~st[i].dead
    /\ st[i].healthy
    /\ daily[i] < DAILY_LIMIT_PER_INSTANCE

\* _getConnection: the usable connection with the lowest daily count, the
\* first of equals; without one, the mock connection or else the first one.
\* A pool built from real URLs holds no mock connection.
getConnection(st, daily) ==
    LET us == {i \in Shards : ioUsable(st, daily, i)}
    IN  IF us = {} THEN 1
        ELSE CHOOSE i \in us : \A j \in us :
                 daily[i] < daily[j] \/ (daily[i] = daily[j] /\ i <= j)

IoInit ==
    /\ ioStats = [i \in Shards |-> [healthy |-> TRUE, dead |-> FALSE]]
    /\ ioDaily = [i \in Shards |-> 0]
    /\ ioLast = [index |-> 0, before |-> 0]

IoIdle == IoInit

\* _execute(command, ...args): out is the answer of the chosen connection, fb
\* the answer of the connections tried after it failed
ioExecute(newDay, out, fb) ==
    LET st0 == ioCheckDailyReset(ioStats, newDay)
        d0 == IF newDay THEN [i \in Shards |-> 0] ELSE ioDaily
        idx == getConnection(st0, d0)
        d1 == [d0 EXCEPT ![idx] = @ + 1]
        st1 == [st0 EXCEPT ![idx] =
                   [healthy |-> FALSE,
                    dead |-> IF out = "limit" THEN TRUE ELSE @.dead]]
        d2 == IF out = "limit"
              THEN [d1 EXCEPT ![idx] = DAILY_LIMIT_PER_INSTANCE] ELSE d1
        cands == {i \in Shards \ {idx} : ioUsable(st1, d2, i)}
        first == SetMin(cands)
    IN  /\ \A i \in Shards : ioDaily[i] < IoMaxCount
        /\ ioLast' = [index |-> idx, before |-> d0[idx]]
        /\ IF out = "ok"
           THEN ioStats' = st0 /\ ioDaily' = d1
           ELSE IF cands = {}
           THEN ioStats' = st1 /\ ioDaily' = d2
           ELSE IF fb = "ok"
           THEN ioStats' = st1 /\ ioDaily' = [d2 EXCEPT ![first] = @ + 1]
           ELSE /\ ioStats' = [i \in Shards |->
                                  IF i \in cands /\ fb = "limit"
                                  THEN [st1[i] EXCEPT !.dead = TRUE]
                                  ELSE st1[i]]
                /\ ioDaily' = [i \in Shards |->
                                  IF i \notin cands THEN d2[i]
                                  ELSE IF fb = "limit"
                                  THEN DAILY_LIMIT_PER_INSTANCE
                                  ELSE d2[i] + 1]

\* conn.on('error'): the connection is marked unhealthy, and dead when the
\* provider reports its request limit
ioConnError(i, limit) ==
    /\ ioStats' = [ioStats EXCEPT ![i] =
                      [healthy |-> FALSE, dead |-> IF limit THEN TRUE ELSE @.dead]]
    /\ ioStats' # ioStats
    /\ UNCHANGED <<ioDaily, ioLast>>

\* conn.on('ready')
ioConnReady(i) ==
    /\ ~ioStats[i].dead
    /\ ~ioStats[i].healthy
    /\ ioStats' = [ioStats EXCEPT ![i].healthy = TRUE]
    /\ UNCHANGED <<ioDaily, ioLast>>

\* ---------------------------------------------------------------------------
\* SectionRotationWorker (src/workers/sectionRotationWorker.js) and the
\* /api/cron/rotate-sections endpoint (src/server.js)
\* ---------------------------------------------------------------------------
NumSections == 3
MaxTicks == 4
MaxRuns == 2
MaxTimers == 2

AllSections == <<"world", "us", "politics", "business", "technology",
                 "health", "sports", "entertainment", "finance">>
sections == SubSeq(AllSections, 1, NumSections)
Runs == 1 .. MaxRuns
FetchOutcomes == {"processed", "nothing", "failed"}
NoRun == [pc |-> "idle", section |-> "none", outcome |-> "none"]

RotInit ==
    /\ currentSectionIndex = 0
    /\ isRunning = FALSE
    /\ rotRun = [p \in Runs |-> NoRun]
    /\ rotLog = <<>>
    /\ rotTimers = {}
    /\ intervalId = 0
    /\ rotLast = "none"

RotIdle == RotInit

\* processNextSection up to its await of fetchAndProcessSection
BeginRun(p) ==
    /\ rotRun[p].pc = "idle"
    /\ Len(rotLog) < MaxTicks
    /\ rotRun' = [rotRun EXCEPT ![p] =
                     [pc |-> "fetch",
                      section |-> sections[currentSectionIndex + 1],
                      outcome |-> "none"]]
    /\ rotLog' = Append(rotLog, sections[currentSectionIndex + 1])
    /\ UNCHANGED currentSectionIndex

\* start() without its isRunning test
startUnguarded(p) ==
    /\ intervalId < MaxTimers
    /\ isRunning' = TRUE
    /\ BeginRun(p)
    /\ intervalId' = intervalId + 1
    /\ rotTimers' = rotTimers \cup {intervalId + 1}
    /\ rotLast' = "start"

\* start(): returns when already running; otherwise sets isRunning, runs
\* processNextSection at once and keeps the id of a new interval timer
start(p) ==
    IF isRunning
    THEN /\ rotLast' = "start-ignored"
         /\ UNCHANGED <<currentSectionIndex, isRunning, rotRun, rotLog,
                        rotTimers, intervalId>>
    ELSE /\ intervalId < MaxTimers
         /\ isRunning' = TRUE
         /\ BeginRun(p)
         /\ intervalId' = intervalId + 1
         /\ rotTimers' = rotTimers \cup {intervalId + 1}
         /\ rotLast' = "start"

\* stop(): returns when not running; otherwise clearInterval(this.intervalId)
stop ==
    IF ~isRunning
    THEN /\ rotLast' = "stop-ignored"
         /\ UNCHANGED <<currentSectionIndex, isRunning, rotRun, rotLog,
                        rotTimers, intervalId>>
    ELSE /\ rotTimers' = rotTimers \ {intervalId}
         /\ isRunning' = FALSE
         /\ rotLast' = "stop"
         /\ UNCHANGED <<currentSectionIndex, rotRun, rotLog, intervalId>>

\* the callback of an active setInterval timer
TimerTick(p) ==
    /\ rotTimers # {}
    /\ BeginRun(p)
    /\ rotLast' = "tick"
    /\ UNCHANGED <<isRunning, rotTimers, intervalId>>

\* GET /api/cron/rotate-sections
cronRotateSections(p) ==
    /\ BeginRun(p)
    /\ rotLast' = "cron"
    /\ UNCHANGED <<isRunning, rotTimers, intervalId>>

\* fetchAndProcessSection settles; the index advances whatever the outcome
FetchDone(p, outcome) ==
    /\ rotRun[p].pc = "fetch"
    /\ currentSectionIndex' = (currentSectionIndex + 1) % Len(sections)
    /\ rotRun' = [rotRun EXCEPT ![p] =
                     IF currentSectionIndex' = 0
                     THEN [@ EXCEPT !.pc = "stats", !.outcome = outcome]
                     ELSE [NoRun EXCEPT !.outcome = outcome]]
    /\ rotLast' = "settled"
    /\ UNCHANGED <<isRunning, rotLog, rotTimers, intervalId>>

\* the statistics queries after a full rotation settle
StatsDone(p) ==
    /\ rotRun[p].pc = "stats"
    /\ rotRun' = [rotRun EXCEPT ![p] =
                     [NoRun EXCEPT !.outcome = rotRun[p].outcome]]
    /\ rotLast' = "settled"
    /\ UNCHANGED <<currentSectionIndex, isRunning, rotLog, rotTimers, intervalId>>

\* ---------------------------------------------------------------------------
\* Threshold gate: ThresholdService (src/services/db/thresholdService.js),
\* ArticleFetcherService.fetchAndProcessSection driven by the rotation worker
\* (src/services/db/sectionArticleService.js) and RedisBatchService
\* (src/unnamed/part_010)
\* ---------------------------------------------------------------------------
NumGateSections == 2
THRESHOLD_PER_SECTION == 2
ItemsPerSection == 2
articlesToProcess == 1

MaxGateTicks == NumGateSections * THRESHOLD_PER_SECTION
SECTIONS == SubSeq(AllSections, 1, NumGateSections)
GateSections == Range(SECTIONS)
Items == 1 .. ItemsPerSection
Urls == GateSections \X Items

\* what the store holds for a url: no document, or a document whose
\* aiCommentary is absent, null, '' or a text
GateComm == {"nodoc", "absent", "null", "empty", "text"}

\* the item lists the upstream API may answer with
RawChoices == {<<>>, [i \in Items |-> i], [i \in Items |-> ItemsPerSection + 1 - i]}

\* $match { aiCommentary: { $exists: true, $ne: null, $ne: '' } }: of the two
\* $ne keys of the object literal the later one is kept
AggregateMatch(c) == c # "nodoc" /\ CommentaryFilter(c)

sectionCount(st, s) ==
    Cardinality({u \in Urls : u[1] = s /\ AggregateMatch(st[u])})

\* the value checkThreshold returns; ok = the aggregate query succeeded
checkThreshold(st, ok) ==
    IF ok
    THEN [thresholdMet |->
              \A s \in GateSections : sectionCount(st, s) >= THRESHOLD_PER_SECTION,
          sections |->
              [s \in GateSections |->
                  [count |-> sectionCount(st, s),
                   met |-> sectionCount(st, s) >= THRESHOLD_PER_SECTION]]]
    ELSE [thresholdMet |-> FALSE, sections |-> [s \in {} |-> 0]]

\* this.thresholdMet after a call: the catch block leaves it as it was
ThresholdMetAfter(st, ok) ==
    IF ok THEN checkThreshold(st, ok).thresholdMet ELSE thresholdMet

\* the loop of fetchAndProcessSection over rawArticles.slice(0, n): the state
\* [store, cached, met] after the first n items of raw
RECURSIVE ProcessItems(_, _, _, _, _, _)
ProcessItems(acc, s, raw, n, aiOk, thrOk) ==
    IF n = 0 THEN acc
    ELSE LET prev == ProcessItems(acc, s, raw, n - 1, aiOk, thrOk)
             u == <<s, raw[n]>>
         IN  IF prev.store[u] = "text" \/ ~aiOk THEN prev
             ELSE LET st2 == [prev.store EXCEPT ![u] = "text"]
                      status == checkThreshold(st2, thrOk)
                  IN  [store |-> st2,
                       cached |-> IF status.thresholdMet
                                  THEN prev.cached \cup {u} ELSE prev.cached,
                       met |-> IF thrOk THEN status.thresholdMet ELSE prev.met,
                       status |-> status]

Min(a, b) == IF a < b THEN a ELSE b

NoStatus == [thresholdMet |-> FALSE, sections |-> [s \in {} |-> 0]]

GateStart ==
    /\ thresholdMet = FALSE
    /\ gateStatus = NoStatus
    /\ gateCached = {}
    /\ gateListed = {}
    /\ batch = "stopped"
    /\ gatePc = "idle"
    /\ gateIndex = 0
    /\ gateTicks = 0

\* a store left by earlier runs of the program, or an empty one
GateInit ==
    /\ gateStore \in [Urls -> GateComm]
    /\ coldStart = (\A u \in Urls : gateStore[u] = "nodoc")
    /\ GateStart

GateIdle ==
    /\ gateStore = [u \in Urls |-> "nodoc"]
    /\ coldStart = TRUE
    /\ GateStart

\* ThresholdService.checkThreshold called on its own (status endpoints)
checkThresholdCall(ok) ==
    /\ gateStatus' = checkThreshold(gateStore, ok)
    /\ thresholdMet' = ThresholdMetAfter(gateStore, ok)
    /\ <<gateStatus', thresholdMet'>> # <<gateStatus, thresholdMet>>
    /\ UNCHANGED <<gateStore, coldStart, gateCached, gateListed, batch, gatePc,
                   gateIndex, gateTicks>>

\* a tick of the rotation worker up to the end of the article loop of
\* fetchAndProcessSection(sections[index], 1)
gateFetch(raw, aiOk, thrOk) ==
    LET s == SECTIONS[gateIndex + 1]
        r == ProcessItems([store |-> gateStore, cached |-> gateCached,
                           met |-> thresholdMet, status |-> gateStatus],
                          s, raw, Min(articlesToProcess, Len(raw)), aiOk, thrOk)
    IN  /\ gatePc = "idle"
        /\ gateTicks < MaxGateTicks
        /\ gateStore' = r.store
        /\ gateCached' = r.cached
        /\ thresholdMet' = r.met
        /\ gateStatus' = r.status
        /\ gatePc' = "clear"
        /\ coldStart' = (coldStart /\ aiOk /\ raw = [i \in Items |-> i])
        /\ UNCHANGED <<gateListed, batch, gateIndex, gateTicks>>

\* clearSectionCache deletes every key CacheService.keys() returns, and
\* processNextSection advances the index
gateClear ==
    /\ gatePc = "clear"
    /\ gateCached' = {}
    /\ gateListed' = {}
    /\ gateIndex' = (gateIndex + 1) % Len(SECTIONS)
    /\ gateTicks' = gateTicks + 1
    /\ gatePc' = "idle"
    /\ UNCHANGED <<gateStore, coldStart, thresholdMet, gateStatus, batch>>

\* updateAllSections: every section's documents that match the filter are
\* cached under article:{id} and pushed to section:{s}:articles
UpdateAllSections ==
    LET fresh == {u \in Urls : AggregateMatch(gateStore[u])}
    IN  /\ gateCached' = gateCached \cup fresh
        /\ gateListed' = gateListed \cup fresh

\* RedisBatchService.start
batchStart(thrOk) ==
    /\ batch = "stopped"
    /\ gateStatus' = checkThreshold(gateStore, thrOk)
    /\ thresholdMet' = ThresholdMetAfter(gateStore, thrOk)
    /\ IF gateStatus'.thresholdMet
       THEN batch' = "running" /\ UpdateAllSections
       ELSE batch' = "waiting" /\ UNCHANGED <<gateCached, gateListed>>
    /\ coldStart' = FALSE
    /\ UNCHANGED <<gateStore, gatePc, gateIndex, gateTicks>>

\* the 15-minute threshold check of a service that waits for the threshold
batchWaitTick(thrOk) ==
    /\ batch = "waiting"
    /\ gateStatus' = checkThreshold(gateStore, thrOk)
    /\ thresholdMet' = ThresholdMetAfter(gateStore, thrOk)
    /\ gateStatus'.thresholdMet
    /\ batch' = "running"
    /\ UpdateAllSections
    /\ UNCHANGED <<gateStore, coldStart, gatePc, gateIndex, gateTicks>>

\* the 15-minute update of a running service
batchTick ==
    /\ batch = "running"
    /\ UpdateAllSections
    /\ <<gateCached', gateListed'>> # <<gateCached, gateListed>>
    /\ UNCHANGED <<gateStore, coldStart, thresholdMet, gateStatus, batch,
                   gatePc, gateIndex, gateTicks>>

\* the cleanup job deletes a document of the store
cleanupDelete(u) ==
    /\ gateStore[u] # "nodoc"
    /\ gateStore' = [gateStore EXCEPT ![u] = "nodoc"]
    /\ coldStart' = FALSE
    /\ UNCHANGED <<thresholdMet, gateStatus, gateCached, gateListed, batch,
                   gatePc, gateIndex, gateTicks>>

\* ---------------------------------------------------------------------------
\* Job priority (commentaryQueue.calculatePriority and the options addToQueue
\* hands to commentaryQueue.add)
\* ---------------------------------------------------------------------------
MaxAgeHours == 49       \* oldest article date of the model, in hours before now

NoDate == 0 - 1000      \* createdAt / publishedDate absent
NoPriority == 0 - 1     \* options carries no priority key
\* hours between the date and Date.now(); a date in the future is negative
ArticleDates == {NoDate} \cup ((0 - 1) .. MaxAgeHours)
PrioSections == {"politics", "us", "world", "business", "Politics",
                 "sports", ""}
ExplicitPriorities == {0, 1, 5}
PrioArticles ==
    [createdAt : ArticleDates, publishedDate : ArticleDates,
     section : PrioSections]

\* String.prototype.toLowerCase on the section names of the model
toLowerCase(s) == IF s = "Politics" THEN "politics" ELSE s

highPriorityCategories == {"politics", "us", "world", "business"}

\* (Date.now() - new Date(createdAt || publishedDate || Date.now())) / 3600000
ageHours(article) ==
    IF article.createdAt # NoDate THEN article.createdAt
    ELSE IF article.publishedDate # NoDate THEN article.publishedDate
    ELSE 0

Max(a, b) == IF a >= b THEN a ELSE b

\* calculatePriority without Math.max and without the final clamp
calculatePriorityUnclamped(article) ==
    LET age == ageHours(article)
        byAge == IF age < 6 THEN 1
                 ELSE IF age < 24 THEN 2
                 ELSE IF age < 48 THEN 3
                 ELSE 5
    IN  IF toLowerCase(article.section) \in highPriorityCategories
        THEN byAge - 1
        ELSE byAge

calculatePriority(article) ==
    LET age == ageHours(article)
        byAge == IF age < 6 THEN 1
                 ELSE IF age < 24 THEN 2
                 ELSE IF age < 48 THEN 3
                 ELSE 5
        boosted == IF toLowerCase(article.section) \in highPriorityCategories
                   THEN Max(1, byAge - 1)
                   ELSE byAge
    IN  Min(Max(boosted, 1), 10)

NoPrioJob == [data |-> NoPriority, opts |-> NoPriority]

\* options.priority || calculatePriority(article): 0 and undefined are falsy
jobDataPriority(article, optPriority) ==
    IF optPriority # NoPriority /\ optPriority # 0 THEN optPriority
    ELSE calculatePriority(article)

\* { jobId, priority, delay, ...options }: a priority key of options
\* overwrites the computed one
jobOptsPriority(article, optPriority) ==
    IF optPriority # NoPriority THEN optPriority
    ELSE jobDataPriority(article, optPriority)

PrioInit ==
    /\ prioArticle \in PrioArticles
    /\ prioOptions \in {NoPriority} \cup ExplicitPriorities
    /\ prioJob = NoPrioJob

PrioIdle ==
    /\ prioArticle = [createdAt |-> NoDate, publishedDate |-> NoDate,
                      section |-> ""]
    /\ prioOptions = NoPriority
    /\ prioJob = NoPrioJob

\* addToQueue from the computation of the priority to commentaryQueue.add
addToQueuePriority ==
    /\ prioJob = NoPrioJob
    /\ prioJob' = [data |-> jobDataPriority(prioArticle, prioOptions),
                   opts |-> jobOptsPriority(prioArticle, prioOptions)]
    /\ UNCHANGED <<prioArticle, prioOptions>>

\* ---------------------------------------------------------------------------
\* Process shutdown (the SIGTERM and SIGINT handlers of server.js and
\* commentaryQueue.shutdown)
\* ---------------------------------------------------------------------------
MaxShutTicks == 2       \* scheduler ticks / worker jobs during a shutdown

Signals == {"SIGTERM", "SIGINT"}
Adapters == {"store", "cache"}
CloseOutcomes == {"ok", "throws"}

Closed == {closeLog[i] : i \in 1 .. Len(closeLog)}
LogClose(c) == IF c \in Closed THEN closeLog ELSE Append(closeLog, c)
Signalled == \E sig \in Signals : sigPc[sig] # "idle"

ShutInit ==
    /\ sigPc = [sig \in Signals |-> "idle"]
    /\ closeLog = <<>>
    /\ exited = FALSE
    /\ lateUse = {}
    /\ shutTicks = 0

ShutIdle == ShutInit

\* process.on(sig, ...): the handler starts
Signal(sig) ==
    /\ ~exited
    /\ sigPc[sig] = "idle"
    /\ sigPc' = [sigPc EXCEPT ![sig] = "closeWorker"]
    /\ UNCHANGED <<closeLog, exited, lateUse, shutTicks>>

\* one awaited close of the handler: `c` is closed and the handler moves to
\* `next`, or the close rejects and the catch block of the handler is entered
CloseStep(sig, at, c, next, outcome) ==
    /\ ~exited
    /\ sigPc[sig] = at
    /\ IF outcome = "ok"
       THEN /\ closeLog' = LogClose(c)
            /\ sigPc' = [sigPc EXCEPT ![sig] = next]
       ELSE /\ closeLog' = closeLog
            /\ sigPc' = [sigPc EXCEPT ![sig] = "exit"]
    /\ UNCHANGED <<exited, lateUse, shutTicks>>

\* shutdown(): await worker.close()
closeWorker(sig, outcome) ==
    CloseStep(sig, "closeWorker", "worker", "closeQueue", outcome)
\* shutdown(): await commentaryQueue.close()
closeQueue(sig, outcome) ==
    CloseStep(sig, "closeQueue", "queue", "closeStore", outcome)
\* await disconnectFromMongoDB()
disconnectFromMongoDB(sig, outcome) ==
    CloseStep(sig, "closeStore", "store", "closeCache", outcome)
\* await redis.quit()
redisQuit(sig, outcome) ==
    CloseStep(sig, "closeCache", "cache", "exit", outcome)

\* process.exit(0) after the try/catch
processExit(sig) ==
    /\ ~exited
    /\ sigPc[sig] = "exit"
    /\ exited' = TRUE
    /\ UNCHANGED <<sigPc, closeLog, lateUse, shutTicks>>

\* what a user of the adapters meets when it runs now
Late(user) == {<<user, a>> : a \in Adapters \cap Closed}

\* the setInterval callback of the rotation worker fires: neither handler
\* calls sectionRotationWorker.stop(), so the timer lives until process.exit
SchedulerTick ==
    /\ ~exited
    /\ Signalled
    /\ shutTicks < MaxShutTicks
    /\ lateUse' = lateUse \cup Late("scheduler")
    /\ shutTicks' = shutTicks + 1
    /\ UNCHANGED <<sigPc, closeLog, exited>>

\* the commentary worker processes a job: possible until worker.close()
WorkerJob ==
    /\ ~exited
    /\ Signalled
    /\ "worker" \notin Closed
    /\ shutTicks < MaxShutTicks
    /\ lateUse' = lateUse \cup Late("worker")
    /\ shutTicks' = shutTicks + 1
    /\ UNCHANGED <<sigPc, closeLog, exited>>

\* ---------------------------------------------------------------------------
\* Authentication failures of a credential (GroqLoadBalancer.createChatCompletion,
\* the `throw error` branch of its catch block)
\* ---------------------------------------------------------------------------
AuthInit == authFailed = {}
AuthIdle == AuthInit

\* the first request answers 401/403: status is not 429 and the message holds
\* no 'rate_limit', so the error is rethrown and the client is left as it was
DispatchAuthError(p) ==
    /\ DispatchError(p)
    /\ authFailed' = authFailed \cup {groqCall[p].idx}

\* ---------------------------------------------------------------------------
\* ArticleFetcherService.fetchAndProcessSection, statement by statement, with
\* calls of the scheduler, the cron endpoints and the fill worker overlapping
\* ---------------------------------------------------------------------------
NumFetchRuns == 2       \* fetchAndProcessSection calls in progress at once
MaxFetchStarts == 3     \* calls started in one behaviour
MaxBatch == 2           \* largest articlesToProcess of the model

FetchRuns == 1 .. NumFetchRuns
FUrls == {"u1", "u2"}
\* what generateGroqCommentary hands back: a text, an exception, or a falsy
\* value
GenOutcomes == {"text", "throws", "nothing"}
\* the upstream answer: no item, one item, two items, the same item twice
RawBatches == {<<>>} \cup {<<u>> : u \in FUrls}
                \cup {<<u, v>> : u \in FUrls, v \in FUrls}

NoFetch == [pc |-> "idle", items |-> <<>>, pos |-> 0, commentary |-> "none",
            enriched0 |-> {}, aiFor |-> {}, wroteFor |-> {}, skipped |-> {},
            failed |-> {}]

\* the documents of a url as the earlier runs of the program left them
FetchInit ==
    /\ fDocs \in [FUrls -> {<<>>, <<"absent">>, <<"text">>}]
    /\ fCached = {}
    /\ fRun = [p \in FetchRuns |-> NoFetch]
    /\ fStarts = 0

FetchIdle ==
    /\ fDocs = [u \in FUrls |-> <<>>]
    /\ fCached = {}
    /\ fRun = [p \in FetchRuns |-> NoFetch]
    /\ fStarts = 0

\* Article.findOne({ url }): the aiCommentary of the first match
findOne(docs, u) == IF docs[u] = <<>> THEN "nodoc" ELSE docs[u][1]

\* Article.findOneAndUpdate({ url }, doc, { upsert: true }): the first match
\* is replaced, a document is inserted when nothing matches
findOneAndUpdate(docs, u, c) ==
    IF docs[u] = <<>> THEN [docs EXCEPT ![u] = <<c>>]
    ELSE [docs EXCEPT ![u][1] = c]

\* the loop moves to the next item, or leaves the loop
NextItem(r) ==
    [r EXCEPT !.pos = @ + 1,
              !.commentary = "none",
              !.pc = IF r.pos < Len(r.items) THEN "find" ELSE "clear"]

\* the call up to the loop: an empty upstream answer returns 0 at once
fetchBegin(p, raw, n) ==
    /\ fStarts < MaxFetchStarts
    /\ fRun[p].pc = "idle"
    /\ fStarts' = fStarts + 1
    /\ fRun' = [fRun EXCEPT ![p] =
          IF raw = <<>> THEN NoFetch
          ELSE [NoFetch EXCEPT
                  !.pc = "find",
                  !.items = SubSeq(raw, 1, Min(n, Len(raw))),
                  !.pos = 1,
                  !.enriched0 = {u \in FUrls : findOne(fDocs, u) = "text"}]]
    /\ UNCHANGED <<fDocs, fCached>>

\* the duplicate check as if every item were new
fetchFindOneNoSkip(p) ==
    /\ fRun[p].pc = "find"
    /\ fRun' = [fRun EXCEPT ![p].pc = "ai"]
    /\ UNCHANGED <<fDocs, fCached, fStarts>>

\* exists = await Article.findOne({ url }); if (exists && exists.aiCommentary)
\* continue
fetchFindOne(p) ==
    LET r == fRun[p]
        u == r.items[r.pos]
    IN  /\ r.pc = "find"
        /\ fRun' = [fRun EXCEPT ![p] =
              IF findOne(fDocs, u) = "text"
              THEN NextItem([r EXCEPT !.skipped = @ \cup {u}])
              ELSE [r EXCEPT !.pc = "ai"]]
        /\ UNCHANGED <<fDocs, fCached, fStarts>>

\* the generation without the test of its result
fetchGenerateUnchecked(p, outcome) ==
    LET r == fRun[p]
        u == r.items[r.pos]
        r1 == [r EXCEPT !.aiFor = @ \cup {u}]
    IN  /\ r.pc = "ai"
        /\ fRun' = [fRun EXCEPT ![p] =
              IF outcome = "throws"
              THEN NextItem([r1 EXCEPT !.failed = @ \cup {u}])
              ELSE [r1 EXCEPT !.pc = "save",
                              !.commentary = IF outcome = "text" THEN "text"
                                             ELSE "empty"]]
        /\ UNCHANGED <<fDocs, fCached, fStarts>>

\* commentary = await generateGroqCommentary(...); if (!commentary) continue;
\* an exception goes to the catch block of the item
fetchGenerate(p, outcome) ==
    LET r == fRun[p]
        u == r.items[r.pos]
        r1 == [r EXCEPT !.aiFor = @ \cup {u}]
    IN  /\ r.pc = "ai"
        /\ fRun' = [fRun EXCEPT ![p] =
              IF outcome = "text"
              THEN [r1 EXCEPT !.pc = "save", !.commentary = "text"]
              ELSE NextItem([r1 EXCEPT !.failed = @ \cup {u}])]
        /\ UNCHANGED <<fDocs, fCached, fStarts>>

\* the upsert by url, then checkThreshold and, the threshold met, the set of
\* article:{id}; a rejected upsert goes to the catch block of the item
fetchSave(p, saved, met) ==
    LET r == fRun[p]
        u == r.items[r.pos]
    IN  /\ r.pc = "save"
        /\ fDocs' = IF saved THEN findOneAndUpdate(fDocs, u, r.commentary)
                    ELSE fDocs
        /\ fCached' = IF saved /\ met THEN fCached \cup {u} ELSE fCached
        /\ fRun' = [fRun EXCEPT ![p] =
              NextItem(IF saved THEN [r EXCEPT !.wroteFor = @ \cup {u}] ELSE r)]
        /\ UNCHANGED fStarts

\* clearSectionCache after the loop: every key keys() returns is deleted; the
\* history of the run stays until its slot starts the next call
fetchClear(p) ==
    /\ fRun[p].pc = "clear"
    /\ fCached' = {}
    /\ fRun' = [fRun EXCEPT ![p].pc = "idle"]
    /\ UNCHANGED <<fDocs, fStarts>>

\* ---------------------------------------------------------------------------
\* The commentary worker processor, statement by statement, for one job whose
\* articleId is a store id or a temporary id (POST /generate-commentary)
\* ---------------------------------------------------------------------------
TempPrefix == "temp-"
\* articleId as [prefix, rest]: "temp-" + Date.now(), or the id of a document
ProcIds == {[prefix |-> TempPrefix, rest |-> "1700000000000"],
            [prefix |-> "", rest |-> "a1"]}
startsWith(id, prefix) == id.prefix = prefix
ProcErrors == {"RATE_LIMIT", "GROQ_ERROR"}
StoreOutcomes == {"ok", "throws"}

NoProcJob == [articleId |-> [prefix |-> "", rest |-> ""], attemptsMade |-> 0,
              pc |-> "none", commentary |-> "none", error |-> "none"]

ProcInit ==
    /\ procJob \in {[NoProcJob EXCEPT !.articleId = id, !.pc = "waiting"] :
                      id \in ProcIds}
    /\ procCache \in [{"commentary", "article"} -> BOOLEAN]
    /\ procLog = <<>>

ProcIdle ==
    /\ procJob = NoProcJob
    /\ procCache = [k \in {"commentary", "article"} |-> FALSE]
    /\ procLog = <<>>

\* the worker takes the job (again, after the backoff of a failed attempt)
procTake ==
    /\ procJob.pc = "waiting"
    /\ procJob' = [procJob EXCEPT !.pc = "getOrSet"]
    /\ UNCHANGED <<procCache, procLog>>

\* the TTL of a key of the job's article runs out
procExpire(k) ==
    /\ procCache[k]
    /\ procCache' = [procCache EXCEPT ![k] = FALSE]
    /\ UNCHANGED <<procJob, procLog>>

\* cacheService.getOrSet(commentary:{id}, generate, 'commentary'): a hit, a
\* generated and cached text, a text of the second generation (not cached), or
\* the error of the second generation
procGetOrSet(gen1, gen2) ==
    LET id == procJob.articleId
    IN  /\ procJob.pc = "getOrSet"
        /\ IF procCache["commentary"]
           THEN /\ procJob' = [procJob EXCEPT !.pc = "cacheArticle",
                                              !.commentary = "text"]
                /\ UNCHANGED <<procCache, procLog>>
           ELSE IF gen1 = "text"
           THEN /\ procJob' = [procJob EXCEPT !.pc = "cacheArticle",
                                              !.commentary = "text"]
                /\ procCache' = [procCache EXCEPT !["commentary"] = TRUE]
                /\ procLog' = Append(procLog, <<"cache", <<"commentary", id>>, "ai">>)
           ELSE IF gen2 = "text"
           THEN /\ procJob' = [procJob EXCEPT !.pc = "cacheArticle",
                                              !.commentary = "text"]
                /\ UNCHANGED <<procCache, procLog>>
           ELSE /\ procJob' = [procJob EXCEPT !.pc = "catch", !.error = gen2]
                /\ UNCHANGED <<procCache, procLog>>

\* cacheService.set(article:{id}, fullArticle, 1800)
procCacheArticle ==
    /\ procJob.pc = "cacheArticle"
    /\ procJob' = [procJob EXCEPT !.pc = "persist"]
    /\ procCache' = [procCache EXCEPT !["article"] = TRUE]
    /\ procLog' = Append(procLog,
                         <<"cache", <<"article", procJob.articleId>>, "ai">>)

\* the store update without the test of the id
procPersistUnguarded(out) ==
    /\ procJob.pc = "persist"
    /\ procJob' = [procJob EXCEPT !.pc = "completed"]
    /\ UNCHANGED procCache
    /\ procLog' = IF out = "ok"
                  THEN Append(procLog, <<"store", <<"article", procJob.articleId>>, "ai">>)
                  ELSE procLog

\* if (!articleId.startsWith('temp-')) updateArticleById(...), its error
\* swallowed; then the processor returns
procPersist(out) ==
    /\ procJob.pc = "persist"
    /\ procJob' = [procJob EXCEPT !.pc = "completed"]
    /\ UNCHANGED procCache
    /\ procLog' = IF ~startsWith(procJob.articleId, TempPrefix) /\ out = "ok"
                  THEN Append(procLog, <<"store", <<"article", procJob.articleId>>, "ai">>)
                  ELSE procLog

\* the catch block: a RATE_LIMIT error is rethrown, the last attempt writes
\* the fallback to the store (not for a temporary id) and to
\* commentary:{id}, any other attempt rethrows
procCatch(out) ==
    LET id == procJob.articleId
        lastTry == procJob.attemptsMade >= Attempts - 1
        storeWrite == IF ~startsWith(id, TempPrefix) /\ out = "ok"
                      THEN <<<<"store", <<"article", id>>, "fallback">>>>
                      ELSE <<>>
    IN  /\ procJob.pc = "catch"
        /\ IF procJob.error = "RATE_LIMIT" \/ ~lastTry
           THEN /\ procJob' = [procJob EXCEPT
                                 !.attemptsMade = @ + 1,
                                 !.error = "none",
                                 !.pc = IF lastTry THEN "failed" ELSE "waiting"]
                /\ UNCHANGED <<procCache, procLog>>
           ELSE /\ procJob' = [procJob EXCEPT !.pc = "completed",
                                              !.commentary = "fallback"]
                /\ procCache' = [procCache EXCEPT !["commentary"] = TRUE]
                /\ procLog' = procLog \o storeWrite
                                \o <<<<"cache", <<"commentary", id>>, "fallback">>>>

\* ---------------------------------------------------------------------------
\* RedisLoadBalancer, REST variant (the second class of part_002): the same
\* routing filter, but a different health marking and no scheduled health check
\* ---------------------------------------------------------------------------
RvKeys == RedisKeys \cup {<<>>}
NoRvOp == [shard |-> 0, out |-> "none"]

\* _checkDailyReset: zeroes the counters; only an instance that is dead is
\* given dead = false and healthy = true
rvCheckDailyReset(inst, newDay) ==
    IF newDay
    THEN [i \in Shards |->
             IF inst[i].dead
             THEN [healthy |-> TRUE, dead |-> FALSE, dailyRequests |-> 0]
             ELSE [inst[i] EXCEPT !.dailyRequests = 0]]
    ELSE inst

\* the selectors count the request, then _restCall: the limit answer marks the
\* instance dead, and the catch marks it unhealthy on every error
rvRestCall(inst, s, out) ==
    IF s = 0 THEN inst
    ELSE [inst EXCEPT ![s] =
             [healthy |-> IF out = "ok" THEN @.healthy ELSE FALSE,
              dead |-> IF out = "limit" THEN TRUE ELSE @.dead,
              dailyRequests |-> @.dailyRequests + 1]]

RvSelectable(s) == s \in Range(available(rvInstances))

RvInit ==
    /\ rvInstances = [i \in Shards |->
                         [healthy |-> TRUE, dead |-> FALSE, dailyRequests |-> 0]]
    /\ rvLast = NoRvOp

RvIdle == RvInit

\* _execute(command, key): key routing when a key is given, else _getInstance
rvExecute(key, newDay, out) ==
    LET inst0 == rvCheckDailyReset(rvInstances, newDay)
        s == IF key = <<>> THEN getInstanceEvenDistribution(inst0)
             ELSE getInstanceForKey(inst0, key)
    IN  /\ rvInstances' = rvRestCall(inst0, s, out)
        /\ rvLast' = [shard |-> s, out |-> IF s = 0 THEN "none" ELSE out]

\* healthCheck(): an on-demand method, called from nowhere and on no timer
rvHealthCheck(pings) ==
    /\ rvInstances' = [i \in Shards |->
                          [rvInstances[i] EXCEPT !.healthy = (pings[i] = "pong")]]
    /\ rvLast' = NoRvOp

\* ---------------------------------------------------------------------------
\* NewsdataLoadBalancer (part_008): getNextKey and tryAllKeys, with the calls
\* of several fetchFromNewsdata callers interleaving at the await
\* ---------------------------------------------------------------------------
NumNdKeys == 3
NumNdCallers == 2
MaxNdCalls == 3

NdKeys == 0 .. (NumNdKeys - 1)
NdCallers == 1 .. NumNdCallers
NoNdCall == [pc |-> "idle", attempt |-> 0, tried |-> <<>>]

NdInit ==
    /\ currentKeyIndex = 0
    /\ requestCounts = [k \in NdKeys |-> 0]
    /\ ndCall = [c \in NdCallers |-> NoNdCall]
    /\ ndStarted = 0

NdIdle == NdInit

\* getNextKey for caller c: takes apiKeys[currentKeyIndex], counts the request
\* and advances the shared index; the caller then awaits apiCallFn(key)
getNextKey(c, attempt) ==
    /\ requestCounts' = [requestCounts EXCEPT ![currentKeyIndex] = @ + 1]
    /\ currentKeyIndex' = (currentKeyIndex + 1) % NumNdKeys
    /\ ndCall' = [ndCall EXCEPT ![c] =
                     [pc |-> "await", attempt |-> attempt,
                      tried |-> Append(@.tried, currentKeyIndex)]]

\* tryAllKeys up to the first await
tryAllKeys(c) ==
    /\ ndCall[c].pc = "idle"
    /\ ndStarted < MaxNdCalls
    /\ ndStarted' = ndStarted + 1
    /\ getNextKey(c, 0)

\* apiCallFn resolves: return result
ndResolve(c) ==
    /\ ndCall[c].pc = "await"
    /\ ndCall' = [ndCall EXCEPT ![c].pc = "returned"]
    /\ UNCHANGED <<currentKeyIndex, requestCounts, ndStarted>>

\* apiCallFn rejects: the next iteration of the loop, or the final throw
ndReject(c) ==
    /\ ndCall[c].pc = "await"
    /\ IF ndCall[c].attempt + 1 < NumNdKeys
       THEN getNextKey(c, ndCall[c].attempt + 1)
       ELSE /\ ndCall' = [ndCall EXCEPT ![c].pc = "threw"]
            /\ UNCHANGED <<currentKeyIndex, requestCounts>>
    /\ UNCHANGED ndStarted

\* fetchFromNewsdata maps the response, or catches the throw and returns []
fetchFromNewsdata(c) ==
    /\ ndCall[c].pc \in {"returned", "threw"}
    /\ ndCall' = [ndCall EXCEPT ![c] = NoNdCall]
    /\ UNCHANGED <<currentKeyIndex, requestCounts, ndStarted>>

\* ---------------------------------------------------------------------------
\* RedisBatchService (part_010): start, startBatchUpdates, stop and the
\* callbacks of its two kinds of setInterval timers
\* ---------------------------------------------------------------------------
MaxBtTimers == 4

BtInit ==
    /\ btIsRunning = FALSE
    /\ btIntervalId = 0
    /\ btTimers = {}
    /\ btNextId = 0
    /\ btStopped = FALSE
    /\ btLast = "none"

BtIdle == BtInit

\* clearInterval(id)
clearInterval(timers, id) == {t \in timers : t.id # id}

\* startBatchUpdates: isRunning = true, one update at once, then the
\* 15-minute timer, whose handle replaces this.intervalId
startBatchUpdates(timers) ==
    /\ btNextId < MaxBtTimers
    /\ btIsRunning' = TRUE
    /\ btLast' = "update"
    /\ btNextId' = btNextId + 1
    /\ btIntervalId' = btNextId + 1
    /\ btTimers' = timers \cup {[id |-> btNextId + 1, kind |-> "update"]}

\* start(): returns when isRunning; below the threshold it sets the polling
\* timer and returns with isRunning still false
btStart(met) ==
    /\ btStopped' = FALSE
    /\ IF btIsRunning
       THEN /\ btLast' = "start"
            /\ UNCHANGED <<btIsRunning, btIntervalId, btTimers, btNextId>>
       ELSE IF ~met
       THEN /\ btNextId < MaxBtTimers
            /\ btNextId' = btNextId + 1
            /\ btIntervalId' = btNextId + 1
            /\ btTimers' = btTimers \cup {[id |-> btNextId + 1, kind |-> "poll"]}
            /\ btLast' = "start"
            /\ UNCHANGED btIsRunning
       ELSE startBatchUpdates(btTimers)

\* the callback of a polling timer: once the threshold is met it clears
\* this.intervalId and starts the updates
btPollTick(id, met) ==
    /\ [id |-> id, kind |-> "poll"] \in btTimers
    /\ IF met
       THEN startBatchUpdates(clearInterval(btTimers, btIntervalId))
       ELSE /\ btLast' = "poll"
            /\ UNCHANGED <<btIsRunning, btIntervalId, btTimers, btNextId>>
    /\ UNCHANGED btStopped

\* the callback of an update timer: updateAllSections
btUpdateTick(id) ==
    /\ [id |-> id, kind |-> "update"] \in btTimers
    /\ btLast' = "update"
    /\ UNCHANGED <<btIsRunning, btIntervalId, btTimers, btNextId, btStopped>>

\* stop(): returns when not running, else clears this.intervalId
btStop ==
    /\ btStopped' = TRUE
    /\ btLast' = "stop"
    /\ IF ~btIsRunning
       THEN UNCHANGED <<btIsRunning, btIntervalId, btTimers, btNextId>>
       ELSE /\ btTimers' = clearInterval(btTimers, btIntervalId)
            /\ btIsRunning' = FALSE
            /\ UNCHANGED <<btIntervalId, btNextId>>

\* ---------------------------------------------------------------------------
\* fillThresholdWorker (workers/fillThresholdWorker.js): one action per way a
\* pass of the while loop ends
\* ---------------------------------------------------------------------------
MAX_RETRIES == 5
MaxFtPasses == 7

FtInit ==
    /\ ftIteration = 1
    /\ ftRetries = 0
    /\ ftExited = FALSE
    /\ ftStreak = 0
    /\ ftPasses = 0

FtIdle == FtInit

ftPass ==
    /\ ~ftExited
    /\ ftPasses < MaxFtPasses
    /\ ftPasses' = ftPasses + 1

\* status.thresholdMet: sleep, iteration++, continue
ftThresholdMet ==
    /\ ftPass
    /\ ftIteration' = ftIteration + 1
    /\ ftStreak' = 0
    /\ UNCHANGED <<ftRetries, ftExited>>

\* sectionsNeedingArticles.length === 0: sleep, iteration++, continue
ftNoSection ==
    /\ ftPass
    /\ ftIteration' = ftIteration + 1
    /\ ftStreak' = 0
    /\ UNCHANGED <<ftRetries, ftExited>>

\* the sections were processed (each fetch in its own try/catch):
\* iteration++, sleep, retries = 0
ftProcessed ==
    /\ ftPass
    /\ ftIteration' = ftIteration + 1
    /\ ftRetries' = 0
    /\ ftStreak' = 0
    /\ UNCHANGED ftExited

\* the pass threw (Article.countDocuments rejects): retries++, and
\* process.exit(1) once retries >= MAX_RETRIES
ftCatch ==
    /\ ftPass
    /\ ftRetries' = ftRetries + 1
    /\ ftExited' = (ftRetries + 1 >= MAX_RETRIES)
    /\ ftStreak' = ftStreak + 1
    /\ UNCHANGED ftIteration

\* ---------------------------------------------------------------------------
\* Specifications
\* ---------------------------------------------------------------------------
InitGroq == GroqInit /\ GosIdle /\ PipeIdle /\ FifoIdle /\ RestIdle /\ IoIdle /\ RotIdle /\ GateIdle /\ PrioIdle /\ ShutIdle /\ AuthIdle /\ FetchIdle /\ ProcIdle /\ RvIdle /\ NdIdle /\ BtIdle /\ FtIdle
NextGroq ==
    \/ (\E S \in SUBSET KeyIdx : ProviderLimits(S))
          /\ UNCHANGED <<gosVars, pipeVars, fifoVars, restVars, ioVars, rotVars, gateVars, prioVars, shutVars, authVars, fetchVars, procVars, rvVars, ndVars, btVars, ftVars>>
    \/ (\E p \in GroqCalls : DispatchStart(p))
          /\ UNCHANGED <<gosVars, pipeVars, fifoVars, restVars, ioVars, rotVars, gateVars, prioVars, shutVars, authVars, fetchVars, procVars, rvVars, ndVars, btVars, ftVars>>
    \/ (\E p \in GroqCalls, u \in UsageChoices : DispatchOk(p, u))
          /\ UNCHANGED <<gosVars, pipeVars, fifoVars, restVars, ioVars, rotVars, gateVars, prioVars, shutVars, authVars, fetchVars, procVars, rvVars, ndVars, btVars, ftVars>>
    \/ (\E p \in GroqCalls : DispatchRateLimited(p))
          /\ UNCHANGED <<gosVars, pipeVars, fifoVars, restVars, ioVars, rotVars, gateVars, prioVars, shutVars, authVars, fetchVars, procVars, rvVars, ndVars, btVars, ftVars>>
    \/ (\E p \in GroqCalls, ok \in BOOLEAN, u \in UsageChoices :
            RetryDone(p, ok, u))
          /\ UNCHANGED <<gosVars, pipeVars, fifoVars, restVars, ioVars, rotVars, gateVars, prioVars, shutVars, authVars, fetchVars, procVars, rvVars, ndVars, btVars, ftVars>>
    \/ (\E p \in GroqCalls : DispatchError(p))
          /\ UNCHANGED <<gosVars, pipeVars, fifoVars, restVars, ioVars, rotVars, gateVars, prioVars, shutVars, authVars, fetchVars, procVars, rvVars, ndVars, btVars, ftVars>>
    \/ resetCounters /\ UNCHANGED <<gosVars, pipeVars, fifoVars, restVars, ioVars, rotVars, gateVars, prioVars, shutVars, authVars, fetchVars, procVars, rvVars, ndVars, btVars, ftVars>>
SpecGroq == InitGroq /\ [][NextGroq]_vars

InitGos == GosInit /\ GroqIdle /\ PipeIdle /\ FifoIdle /\ RestIdle /\ IoIdle /\ RotIdle /\ GateIdle /\ PrioIdle /\ ShutIdle /\ AuthIdle /\ FetchIdle /\ ProcIdle /\ RvIdle /\ NdIdle /\ BtIdle /\ FtIdle
NextGos ==
    \/ (\E p \in Callers, ok \in BOOLEAN : GosGet(p, ok))
          /\ UNCHANGED <<groqVars, pipeVars, fifoVars, restVars, ioVars, rotVars, gateVars, prioVars, shutVars, authVars, fetchVars, procVars, rvVars, ndVars, btVars, ftVars>>
    \/ (\E p \in Callers, r \in FetchValues \cup {"throw"} : GosFetch(p, r))
          /\ UNCHANGED <<groqVars, pipeVars, fifoVars, restVars, ioVars, rotVars, gateVars, prioVars, shutVars, authVars, fetchVars, procVars, rvVars, ndVars, btVars, ftVars>>
    \/ (\E p \in Callers, ok \in BOOLEAN : GosSetex(p, ok))
          /\ UNCHANGED <<groqVars, pipeVars, fifoVars, restVars, ioVars, rotVars, gateVars, prioVars, shutVars, authVars, fetchVars, procVars, rvVars, ndVars, btVars, ftVars>>
    \/ (\E p \in Callers, r \in FetchValues \cup {"throw"} : GosCatchFetch(p, r))
          /\ UNCHANGED <<groqVars, pipeVars, fifoVars, restVars, ioVars, rotVars, gateVars, prioVars, shutVars, authVars, fetchVars, procVars, rvVars, ndVars, btVars, ftVars>>
    \/ (\E e \in BOOLEAN : GosNewRound(e)) /\ UNCHANGED <<groqVars, pipeVars, fifoVars, restVars, ioVars, rotVars, gateVars, prioVars, shutVars, authVars, fetchVars, procVars, rvVars, ndVars, btVars, ftVars>>
SpecGos == InitGos /\ [][NextGos]_vars

InitCache == CacheInit /\ GroqIdle /\ GosIdle /\ FifoIdle /\ RestIdle /\ IoIdle /\ RotIdle /\ GateIdle /\ PrioIdle /\ ShutIdle /\ AuthIdle /\ FetchIdle /\ ProcIdle /\ RvIdle /\ NdIdle /\ BtIdle /\ FtIdle
NextCache ==
    \/ (\E s \in Sections : updateSection(s)) /\ UNCHANGED <<groqVars, gosVars, fifoVars, restVars, ioVars, rotVars, gateVars, prioVars, shutVars, authVars, fetchVars, procVars, rvVars, ndVars, btVars, ftVars>>
    \/ refreshCache /\ UNCHANGED <<groqVars, gosVars, fifoVars, restVars, ioVars, rotVars, gateVars, prioVars, shutVars, authVars, fetchVars, procVars, rvVars, ndVars, btVars, ftVars>>
    \/ (\E s \in Sections : getArticlesBySection(s))
          /\ UNCHANGED <<groqVars, gosVars, fifoVars, restVars, ioVars, rotVars, gateVars, prioVars, shutVars, authVars, fetchVars, procVars, rvVars, ndVars, btVars, ftVars>>
    \/ (\E s \in Sections, id \in ArticleIds, ok \in BOOLEAN :
            fetchAndProcessSection(s, id, ok))
          /\ UNCHANGED <<groqVars, gosVars, fifoVars, restVars, ioVars, rotVars, gateVars, prioVars, shutVars, authVars, fetchVars, procVars, rvVars, ndVars, btVars, ftVars>>
    \/ (\E id \in ArticleIds : ExpireArticle(id))
          /\ UNCHANGED <<groqVars, gosVars, fifoVars, restVars, ioVars, rotVars, gateVars, prioVars, shutVars, authVars, fetchVars, procVars, rvVars, ndVars, btVars, ftVars>>
    \/ (\E s \in Sections : ExpirePage(s)) /\ UNCHANGED <<groqVars, gosVars, fifoVars, restVars, ioVars, rotVars, gateVars, prioVars, shutVars, authVars, fetchVars, procVars, rvVars, ndVars, btVars, ftVars>>
SpecCache == InitCache /\ [][NextCache]_vars

InitQueue == QueueInit /\ GroqIdle /\ GosIdle /\ FifoIdle /\ RestIdle /\ IoIdle /\ RotIdle /\ GateIdle /\ PrioIdle /\ ShutIdle /\ AuthIdle /\ FetchIdle /\ ProcIdle /\ RvIdle /\ NdIdle /\ BtIdle /\ FtIdle
NextQueue ==
    \/ (\E id \in ArticleIds \cup {NoId}, lookup \in LookupOutcomes : addToQueue(id, lookup)) /\ UNCHANGED <<groqVars, gosVars, fifoVars, restVars, ioVars, rotVars, gateVars, prioVars, shutVars, authVars, fetchVars, procVars, rvVars, ndVars, btVars, ftVars>>
    \/ (\E id \in ArticleIds : ReadArticle(id)) /\ UNCHANGED <<groqVars, gosVars, fifoVars, restVars, ioVars, rotVars, gateVars, prioVars, shutVars, authVars, fetchVars, procVars, rvVars, ndVars, btVars, ftVars>>
    \/ (\E i \in JobIdx : WorkerTake(i)) /\ UNCHANGED <<groqVars, gosVars, fifoVars, restVars, ioVars, rotVars, gateVars, prioVars, shutVars, authVars, fetchVars, procVars, rvVars, ndVars, btVars, ftVars>>
    \/ (\E i \in JobIdx : PromoteDelayed(i)) /\ UNCHANGED <<groqVars, gosVars, fifoVars, restVars, ioVars, rotVars, gateVars, prioVars, shutVars, authVars, fetchVars, procVars, rvVars, ndVars, btVars, ftVars>>
    \/ (\E i \in JobIdx : WorkerLookup(i)) /\ UNCHANGED <<groqVars, gosVars, fifoVars, restVars, ioVars, rotVars, gateVars, prioVars, shutVars, authVars, fetchVars, procVars, rvVars, ndVars, btVars, ftVars>>
    \/ (\E i \in JobIdx, ai1 \in AiOutcomes, ai2 \in AiOutcomes :
            WorkerFinish(i, ai1, ai2))
          /\ UNCHANGED <<groqVars, gosVars, fifoVars, restVars, ioVars, rotVars, gateVars, prioVars, shutVars, authVars, fetchVars, procVars, rvVars, ndVars, btVars, ftVars>>
    \/ (\E id \in ArticleIds : ExpireArticle(id))
          /\ UNCHANGED <<groqVars, gosVars, fifoVars, restVars, ioVars, rotVars, gateVars, prioVars, shutVars, authVars, fetchVars, procVars, rvVars, ndVars, btVars, ftVars>>
    \/ (\E id \in ArticleIds : ExpireCommentary(id))
          /\ UNCHANGED <<groqVars, gosVars, fifoVars, restVars, ioVars, rotVars, gateVars, prioVars, shutVars, authVars, fetchVars, procVars, rvVars, ndVars, btVars, ftVars>>
SpecQueue == InitQueue /\ [][NextQueue]_vars

InitFifo == FifoInit /\ GroqIdle /\ GosIdle /\ PipeIdle /\ RestIdle /\ IoIdle /\ RotIdle /\ GateIdle /\ PrioIdle /\ ShutIdle /\ AuthIdle /\ FetchIdle /\ ProcIdle /\ RvIdle /\ NdIdle /\ BtIdle /\ FtIdle
NextFifo ==
    \/ (\E u \in Updaters, ids \in PushChoices : FifoBegin(u, ids))
          /\ UNCHANGED <<groqVars, gosVars, pipeVars, restVars, ioVars, rotVars, gateVars, prioVars, shutVars, authVars, fetchVars, procVars, rvVars, ndVars, btVars, ftVars>>
    \/ (\E u \in Updaters : FifoRpush(u)) /\ UNCHANGED <<groqVars, gosVars, pipeVars, restVars, ioVars, rotVars, gateVars, prioVars, shutVars, authVars, fetchVars, procVars, rvVars, ndVars, btVars, ftVars>>
    \/ (\E u \in Updaters : FifoLlen(u)) /\ UNCHANGED <<groqVars, gosVars, pipeVars, restVars, ioVars, rotVars, gateVars, prioVars, shutVars, authVars, fetchVars, procVars, rvVars, ndVars, btVars, ftVars>>
    \/ (\E u \in Updaters : FifoLrange(u)) /\ UNCHANGED <<groqVars, gosVars, pipeVars, restVars, ioVars, rotVars, gateVars, prioVars, shutVars, authVars, fetchVars, procVars, rvVars, ndVars, btVars, ftVars>>
    \/ (\E u \in Updaters : FifoLtrim(u)) /\ UNCHANGED <<groqVars, gosVars, pipeVars, restVars, ioVars, rotVars, gateVars, prioVars, shutVars, authVars, fetchVars, procVars, rvVars, ndVars, btVars, ftVars>>
    \/ (\E u \in Updaters : FifoDel(u)) /\ UNCHANGED <<groqVars, gosVars, pipeVars, restVars, ioVars, rotVars, gateVars, prioVars, shutVars, authVars, fetchVars, procVars, rvVars, ndVars, btVars, ftVars>>
SpecFifo == InitFifo /\ [][NextFifo]_vars

InitRest == RestInit /\ GroqIdle /\ GosIdle /\ PipeIdle /\ FifoIdle /\ IoIdle /\ RotIdle /\ GateIdle /\ PrioIdle /\ ShutIdle /\ AuthIdle /\ FetchIdle /\ ProcIdle /\ RvIdle /\ NdIdle /\ BtIdle /\ FtIdle
NextRest ==
    \/ (\E d \in BOOLEAN, pings \in [Shards -> PingOutcomes] :
            runHealthCheck(d, pings))
          /\ UNCHANGED <<groqVars, gosVars, pipeVars, fifoVars, ioVars, rotVars, gateVars, prioVars, shutVars, authVars, fetchVars, procVars, rvVars, ndVars, btVars, ftVars>>
    \/ (\E k \in RedisKeys, v \in RedisValues, d \in BOOLEAN,
          out \in RestOutcomes : setex(k, v, d, out))
          /\ UNCHANGED <<groqVars, gosVars, pipeVars, fifoVars, ioVars, rotVars, gateVars, prioVars, shutVars, authVars, fetchVars, procVars, rvVars, ndVars, btVars, ftVars>>
    \/ (\E k \in RedisKeys, d \in BOOLEAN, out \in RestOutcomes : get(k, d, out))
          /\ UNCHANGED <<groqVars, gosVars, pipeVars, fifoVars, ioVars, rotVars, gateVars, prioVars, shutVars, authVars, fetchVars, procVars, rvVars, ndVars, btVars, ftVars>>
    \/ (\E ks \in DelChoices, d \in BOOLEAN, out \in RestOutcomes :
            del(ks, d, out))
          /\ UNCHANGED <<groqVars, gosVars, pipeVars, fifoVars, ioVars, rotVars, gateVars, prioVars, shutVars, authVars, fetchVars, procVars, rvVars, ndVars, btVars, ftVars>>
    \/ (\E d \in BOOLEAN, out \in RestOutcomes : ping(d, out))
          /\ UNCHANGED <<groqVars, gosVars, pipeVars, fifoVars, ioVars, rotVars, gateVars, prioVars, shutVars, authVars, fetchVars, procVars, rvVars, ndVars, btVars, ftVars>>
    \/ (\E k \in RedisKeys : MemoryTimer(k))
          /\ UNCHANGED <<groqVars, gosVars, pipeVars, fifoVars, ioVars, rotVars, gateVars, prioVars, shutVars, authVars, fetchVars, procVars, rvVars, ndVars, btVars, ftVars>>
    \/ (\E s \in Shards, k \in RedisKeys : ShardExpire(s, k))
          /\ UNCHANGED <<groqVars, gosVars, pipeVars, fifoVars, ioVars, rotVars, gateVars, prioVars, shutVars, authVars, fetchVars, procVars, rvVars, ndVars, btVars, ftVars>>
SpecRest == InitRest /\ [][NextRest]_vars

InitIo == IoInit /\ GroqIdle /\ GosIdle /\ PipeIdle /\ FifoIdle /\ RestIdle /\ RotIdle /\ GateIdle /\ PrioIdle /\ ShutIdle /\ AuthIdle /\ FetchIdle /\ ProcIdle /\ RvIdle /\ NdIdle /\ BtIdle /\ FtIdle
NextIo ==
    \/ (\E d \in BOOLEAN, out \in RestOutcomes, fb \in RestOutcomes :
            ioExecute(d, out, fb))
          /\ UNCHANGED <<groqVars, gosVars, pipeVars, fifoVars, restVars, rotVars, gateVars, prioVars, shutVars, authVars, fetchVars, procVars, rvVars, ndVars, btVars, ftVars>>
    \/ (\E i \in Shards, l \in BOOLEAN : ioConnError(i, l))
          /\ UNCHANGED <<groqVars, gosVars, pipeVars, fifoVars, restVars, rotVars, gateVars, prioVars, shutVars, authVars, fetchVars, procVars, rvVars, ndVars, btVars, ftVars>>
    \/ (\E i \in Shards : ioConnReady(i))
          /\ UNCHANGED <<groqVars, gosVars, pipeVars, fifoVars, restVars, rotVars, gateVars, prioVars, shutVars, authVars, fetchVars, procVars, rvVars, ndVars, btVars, ftVars>>
SpecIo == InitIo /\ [][NextIo]_vars

InitRot == RotInit /\ GroqIdle /\ GosIdle /\ PipeIdle /\ FifoIdle /\ RestIdle /\ IoIdle /\ GateIdle /\ PrioIdle /\ ShutIdle /\ AuthIdle /\ FetchIdle /\ ProcIdle /\ RvIdle /\ NdIdle /\ BtIdle /\ FtIdle
NextRot ==
    \/ (\E p \in Runs : start(p))
          /\ UNCHANGED <<groqVars, gosVars, pipeVars, fifoVars, restVars, ioVars, gateVars, prioVars, shutVars, authVars, fetchVars, procVars, rvVars, ndVars, btVars, ftVars>>
    \/ stop
          /\ UNCHANGED <<groqVars, gosVars, pipeVars, fifoVars, restVars, ioVars, gateVars, prioVars, shutVars, authVars, fetchVars, procVars, rvVars, ndVars, btVars, ftVars>>
    \/ (\E p \in Runs : TimerTick(p))
          /\ UNCHANGED <<groqVars, gosVars, pipeVars, fifoVars, restVars, ioVars, gateVars, prioVars, shutVars, authVars, fetchVars, procVars, rvVars, ndVars, btVars, ftVars>>
    \/ (\E p \in Runs : cronRotateSections(p))
          /\ UNCHANGED <<groqVars, gosVars, pipeVars, fifoVars, restVars, ioVars, gateVars, prioVars, shutVars, authVars, fetchVars, procVars, rvVars, ndVars, btVars, ftVars>>
    \/ (\E p \in Runs, o \in FetchOutcomes : FetchDone(p, o))
          /\ UNCHANGED <<groqVars, gosVars, pipeVars, fifoVars, restVars, ioVars, gateVars, prioVars, shutVars, authVars, fetchVars, procVars, rvVars, ndVars, btVars, ftVars>>
    \/ (\E p \in Runs : StatsDone(p))
          /\ UNCHANGED <<groqVars, gosVars, pipeVars, fifoVars, restVars, ioVars, gateVars, prioVars, shutVars, authVars, fetchVars, procVars, rvVars, ndVars, btVars, ftVars>>
SpecRot == InitRot /\ [][NextRot]_vars

InitGate == GateInit /\ GroqIdle /\ GosIdle /\ PipeIdle /\ FifoIdle /\ RestIdle /\ IoIdle /\ RotIdle /\ PrioIdle /\ ShutIdle /\ AuthIdle /\ FetchIdle /\ ProcIdle /\ RvIdle /\ NdIdle /\ BtIdle /\ FtIdle
NextGate ==
    \/ (\E ok \in BOOLEAN : checkThresholdCall(ok))
          /\ UNCHANGED <<groqVars, gosVars, pipeVars, fifoVars, restVars, ioVars, rotVars, prioVars, shutVars, authVars, fetchVars, procVars, rvVars, ndVars, btVars, ftVars>>
    \/ (\E raw \in RawChoices, aiOk \in BOOLEAN, thrOk \in BOOLEAN :
            gateFetch(raw, aiOk, thrOk))
          /\ UNCHANGED <<groqVars, gosVars, pipeVars, fifoVars, restVars, ioVars, rotVars, prioVars, shutVars, authVars, fetchVars, procVars, rvVars, ndVars, btVars, ftVars>>
    \/ gateClear
          /\ UNCHANGED <<groqVars, gosVars, pipeVars, fifoVars, restVars, ioVars, rotVars, prioVars, shutVars, authVars, fetchVars, procVars, rvVars, ndVars, btVars, ftVars>>
    \/ (\E ok \in BOOLEAN : batchStart(ok))
          /\ UNCHANGED <<groqVars, gosVars, pipeVars, fifoVars, restVars, ioVars, rotVars, prioVars, shutVars, authVars, fetchVars, procVars, rvVars, ndVars, btVars, ftVars>>
    \/ (\E ok \in BOOLEAN : batchWaitTick(ok))
          /\ UNCHANGED <<groqVars, gosVars, pipeVars, fifoVars, restVars, ioVars, rotVars, prioVars, shutVars, authVars, fetchVars, procVars, rvVars, ndVars, btVars, ftVars>>
    \/ batchTick
          /\ UNCHANGED <<groqVars, gosVars, pipeVars, fifoVars, restVars, ioVars, rotVars, prioVars, shutVars, authVars, fetchVars, procVars, rvVars, ndVars, btVars, ftVars>>
    \/ (\E u \in Urls : cleanupDelete(u))
          /\ UNCHANGED <<groqVars, gosVars, pipeVars, fifoVars, restVars, ioVars, rotVars, prioVars, shutVars, authVars, fetchVars, procVars, rvVars, ndVars, btVars, ftVars>>
SpecGate == InitGate /\ [][NextGate]_vars

InitPrio == PrioInit /\ GroqIdle /\ GosIdle /\ PipeIdle /\ FifoIdle /\ RestIdle /\ IoIdle /\ RotIdle /\ GateIdle /\ ShutIdle /\ AuthIdle /\ FetchIdle /\ ProcIdle /\ RvIdle /\ NdIdle /\ BtIdle /\ FtIdle
NextPrio ==
    \/ addToQueuePriority /\ UNCHANGED <<groqVars, gosVars, pipeVars, fifoVars, restVars, ioVars, rotVars, gateVars, shutVars, authVars, fetchVars, procVars, rvVars, ndVars, btVars, ftVars>>
SpecPrio == InitPrio /\ [][NextPrio]_vars

InitShut == ShutInit /\ GroqIdle /\ GosIdle /\ PipeIdle /\ FifoIdle /\ RestIdle /\ IoIdle /\ RotIdle /\ GateIdle /\ PrioIdle /\ AuthIdle /\ FetchIdle /\ ProcIdle /\ RvIdle /\ NdIdle /\ BtIdle /\ FtIdle
NextShut ==
    \/ (\E sig \in Signals : Signal(sig)) /\ UNCHANGED <<groqVars, gosVars, pipeVars, fifoVars, restVars, ioVars, rotVars, gateVars, prioVars, authVars, fetchVars, procVars, rvVars, ndVars, btVars, ftVars>>
    \/ (\E sig \in Signals, o \in CloseOutcomes : closeWorker(sig, o)) /\ UNCHANGED <<groqVars, gosVars, pipeVars, fifoVars, restVars, ioVars, rotVars, gateVars, prioVars, authVars, fetchVars, procVars, rvVars, ndVars, btVars, ftVars>>
    \/ (\E sig \in Signals, o \in CloseOutcomes : closeQueue(sig, o)) /\ UNCHANGED <<groqVars, gosVars, pipeVars, fifoVars, restVars, ioVars, rotVars, gateVars, prioVars, authVars, fetchVars, procVars, rvVars, ndVars, btVars, ftVars>>
    \/ (\E sig \in Signals, o \in CloseOutcomes : disconnectFromMongoDB(sig, o)) /\ UNCHANGED <<groqVars, gosVars, pipeVars, fifoVars, restVars, ioVars, rotVars, gateVars, prioVars, authVars, fetchVars, procVars, rvVars, ndVars, btVars, ftVars>>
    \/ (\E sig \in Signals, o \in CloseOutcomes : redisQuit(sig, o)) /\ UNCHANGED <<groqVars, gosVars, pipeVars, fifoVars, restVars, ioVars, rotVars, gateVars, prioVars, authVars, fetchVars, procVars, rvVars, ndVars, btVars, ftVars>>
    \/ (\E sig \in Signals : processExit(sig)) /\ UNCHANGED <<groqVars, gosVars, pipeVars, fifoVars, restVars, ioVars, rotVars, gateVars, prioVars, authVars, fetchVars, procVars, rvVars, ndVars, btVars, ftVars>>
    \/ SchedulerTick /\ UNCHANGED <<groqVars, gosVars, pipeVars, fifoVars, restVars, ioVars, rotVars, gateVars, prioVars, authVars, fetchVars, procVars, rvVars, ndVars, btVars, ftVars>>
    \/ WorkerJob /\ UNCHANGED <<groqVars, gosVars, pipeVars, fifoVars, restVars, ioVars, rotVars, gateVars, prioVars, authVars, fetchVars, procVars, rvVars, ndVars, btVars, ftVars>>
SpecShut == InitShut /\ [][NextShut]_vars

InitAuth == GroqInit /\ AuthInit /\ GosIdle /\ PipeIdle /\ FifoIdle /\ RestIdle /\ IoIdle /\ RotIdle /\ GateIdle /\ PrioIdle /\ ShutIdle /\ FetchIdle /\ ProcIdle /\ RvIdle /\ NdIdle /\ BtIdle /\ FtIdle
NextAuth ==
    \/ (\E p \in GroqCalls : DispatchStart(p)) /\ UNCHANGED <<gosVars, pipeVars, fifoVars, restVars, ioVars, rotVars, gateVars, prioVars, shutVars, authVars, fetchVars, procVars, rvVars, ndVars, btVars, ftVars>>
    \/ (\E p \in GroqCalls, u \in UsageChoices : DispatchOk(p, u)) /\ UNCHANGED <<gosVars, pipeVars, fifoVars, restVars, ioVars, rotVars, gateVars, prioVars, shutVars, authVars, fetchVars, procVars, rvVars, ndVars, btVars, ftVars>>
    \/ (\E p \in GroqCalls : DispatchAuthError(p)) /\ UNCHANGED <<gosVars, pipeVars, fifoVars, restVars, ioVars, rotVars, gateVars, prioVars, shutVars, fetchVars, procVars, rvVars, ndVars, btVars, ftVars>>
    \/ resetCounters /\ UNCHANGED <<gosVars, pipeVars, fifoVars, restVars, ioVars, rotVars, gateVars, prioVars, shutVars, authVars, fetchVars, procVars, rvVars, ndVars, btVars, ftVars>>
SpecAuth == InitAuth /\ [][NextAuth]_vars

InitFetch == FetchInit /\ GroqIdle /\ GosIdle /\ PipeIdle /\ FifoIdle /\ RestIdle /\ IoIdle /\ RotIdle /\ GateIdle /\ PrioIdle /\ ShutIdle /\ AuthIdle /\ ProcIdle /\ RvIdle /\ NdIdle /\ BtIdle /\ FtIdle
NextFetch ==
    \/ (\E p \in FetchRuns, raw \in RawBatches, n \in 1 .. MaxBatch : fetchBegin(p, raw, n)) /\ UNCHANGED <<groqVars, gosVars, pipeVars, fifoVars, restVars, ioVars, rotVars, gateVars, prioVars, shutVars, authVars, procVars, rvVars, ndVars, btVars, ftVars>>
    \/ (\E p \in FetchRuns : fetchFindOne(p)) /\ UNCHANGED <<groqVars, gosVars, pipeVars, fifoVars, restVars, ioVars, rotVars, gateVars, prioVars, shutVars, authVars, procVars, rvVars, ndVars, btVars, ftVars>>
    \/ (\E p \in FetchRuns, o \in GenOutcomes : fetchGenerate(p, o)) /\ UNCHANGED <<groqVars, gosVars, pipeVars, fifoVars, restVars, ioVars, rotVars, gateVars, prioVars, shutVars, authVars, procVars, rvVars, ndVars, btVars, ftVars>>
    \/ (\E p \in FetchRuns, saved \in BOOLEAN, met \in BOOLEAN : fetchSave(p, saved, met)) /\ UNCHANGED <<groqVars, gosVars, pipeVars, fifoVars, restVars, ioVars, rotVars, gateVars, prioVars, shutVars, authVars, procVars, rvVars, ndVars, btVars, ftVars>>
    \/ (\E p \in FetchRuns : fetchClear(p)) /\ UNCHANGED <<groqVars, gosVars, pipeVars, fifoVars, restVars, ioVars, rotVars, gateVars, prioVars, shutVars, authVars, procVars, rvVars, ndVars, btVars, ftVars>>
SpecFetch == InitFetch /\ [][NextFetch]_vars

InitProc == ProcInit /\ GroqIdle /\ GosIdle /\ PipeIdle /\ FifoIdle /\ RestIdle /\ IoIdle /\ RotIdle /\ GateIdle /\ PrioIdle /\ ShutIdle /\ AuthIdle /\ FetchIdle /\ RvIdle /\ NdIdle /\ BtIdle /\ FtIdle
NextProc ==
    \/ procTake /\ UNCHANGED <<groqVars, gosVars, pipeVars, fifoVars, restVars, ioVars, rotVars, gateVars, prioVars, shutVars, authVars, fetchVars, rvVars, ndVars, btVars, ftVars>>
    \/ (\E gen1 \in {"text"} \cup ProcErrors, gen2 \in {"text"} \cup ProcErrors : procGetOrSet(gen1, gen2)) /\ UNCHANGED <<groqVars, gosVars, pipeVars, fifoVars, restVars, ioVars, rotVars, gateVars, prioVars, shutVars, authVars, fetchVars, rvVars, ndVars, btVars, ftVars>>
    \/ procCacheArticle /\ UNCHANGED <<groqVars, gosVars, pipeVars, fifoVars, restVars, ioVars, rotVars, gateVars, prioVars, shutVars, authVars, fetchVars, rvVars, ndVars, btVars, ftVars>>
    \/ (\E out \in StoreOutcomes : procPersist(out)) /\ UNCHANGED <<groqVars, gosVars, pipeVars, fifoVars, restVars, ioVars, rotVars, gateVars, prioVars, shutVars, authVars, fetchVars, rvVars, ndVars, btVars, ftVars>>
    \/ (\E out \in StoreOutcomes : procCatch(out)) /\ UNCHANGED <<groqVars, gosVars, pipeVars, fifoVars, restVars, ioVars, rotVars, gateVars, prioVars, shutVars, authVars, fetchVars, rvVars, ndVars, btVars, ftVars>>
    \/ (\E k \in {"commentary", "article"} : procExpire(k)) /\ UNCHANGED <<groqVars, gosVars, pipeVars, fifoVars, restVars, ioVars, rotVars, gateVars, prioVars, shutVars, authVars, fetchVars, rvVars, ndVars, btVars, ftVars>>
SpecProc == InitProc /\ [][NextProc]_vars

InitRv == RvInit /\ GroqIdle /\ GosIdle /\ PipeIdle /\ FifoIdle /\ RestIdle /\ IoIdle /\ RotIdle /\ GateIdle /\ PrioIdle /\ ShutIdle /\ AuthIdle /\ FetchIdle /\ ProcIdle /\ NdIdle /\ BtIdle /\ FtIdle
NextRv ==
    \/ (\E k \in RvKeys, d \in BOOLEAN, out \in RestOutcomes :
            rvExecute(k, d, out))
          /\ UNCHANGED <<groqVars, gosVars, pipeVars, fifoVars, restVars, ioVars, rotVars, gateVars, prioVars, shutVars, authVars, fetchVars, procVars, ndVars, btVars, ftVars>>
    \/ (\E pings \in [Shards -> PingOutcomes] : rvHealthCheck(pings))
          /\ UNCHANGED <<groqVars, gosVars, pipeVars, fifoVars, restVars, ioVars, rotVars, gateVars, prioVars, shutVars, authVars, fetchVars, procVars, ndVars, btVars, ftVars>>
\* days keep coming, commands keep being issued and the shards answer them;
\* nothing in the REST variant schedules healthCheck, so it gets no fairness
RvDayCommand ==
    (\E k \in RvKeys : rvExecute(k, TRUE, "ok"))
      /\ UNCHANGED <<groqVars, gosVars, pipeVars, fifoVars, restVars, ioVars, rotVars, gateVars, prioVars, shutVars, authVars, fetchVars, procVars, ndVars, btVars, ftVars>>
SpecRv == InitRv /\ [][NextRv]_vars /\ WF_vars(RvDayCommand)

InitNd == NdInit /\ GroqIdle /\ GosIdle /\ PipeIdle /\ FifoIdle /\ RestIdle /\ IoIdle /\ RotIdle /\ GateIdle /\ PrioIdle /\ ShutIdle /\ AuthIdle /\ FetchIdle /\ ProcIdle /\ RvIdle /\ BtIdle /\ FtIdle
NextNd ==
    \/ (\E c \in NdCallers : tryAllKeys(c))
          /\ UNCHANGED <<groqVars, gosVars, pipeVars, fifoVars, restVars, ioVars, rotVars, gateVars, prioVars, shutVars, authVars, fetchVars, procVars, rvVars, btVars, ftVars>>
    \/ (\E c \in NdCallers : ndResolve(c))
          /\ UNCHANGED <<groqVars, gosVars, pipeVars, fifoVars, restVars, ioVars, rotVars, gateVars, prioVars, shutVars, authVars, fetchVars, procVars, rvVars, btVars, ftVars>>
    \/ (\E c \in NdCallers : ndReject(c))
          /\ UNCHANGED <<groqVars, gosVars, pipeVars, fifoVars, restVars, ioVars, rotVars, gateVars, prioVars, shutVars, authVars, fetchVars, procVars, rvVars, btVars, ftVars>>
    \/ (\E c \in NdCallers : fetchFromNewsdata(c))
          /\ UNCHANGED <<groqVars, gosVars, pipeVars, fifoVars, restVars, ioVars, rotVars, gateVars, prioVars, shutVars, authVars, fetchVars, procVars, rvVars, btVars, ftVars>>
SpecNd == InitNd /\ [][NextNd]_vars

InitBt == BtInit /\ GroqIdle /\ GosIdle /\ PipeIdle /\ FifoIdle /\ RestIdle /\ IoIdle /\ RotIdle /\ GateIdle /\ PrioIdle /\ ShutIdle /\ AuthIdle /\ FetchIdle /\ ProcIdle /\ RvIdle /\ NdIdle /\ FtIdle
NextBt ==
    \/ (\E met \in BOOLEAN : btStart(met))
          /\ UNCHANGED <<groqVars, gosVars, pipeVars, fifoVars, restVars, ioVars, rotVars, gateVars, prioVars, shutVars, authVars, fetchVars, procVars, rvVars, ndVars, ftVars>>
    \/ (\E id \in 1 .. MaxBtTimers, met \in BOOLEAN : btPollTick(id, met))
          /\ UNCHANGED <<groqVars, gosVars, pipeVars, fifoVars, restVars, ioVars, rotVars, gateVars, prioVars, shutVars, authVars, fetchVars, procVars, rvVars, ndVars, ftVars>>
    \/ (\E id \in 1 .. MaxBtTimers : btUpdateTick(id))
          /\ UNCHANGED <<groqVars, gosVars, pipeVars, fifoVars, restVars, ioVars, rotVars, gateVars, prioVars, shutVars, authVars, fetchVars, procVars, rvVars, ndVars, ftVars>>
    \/ btStop
          /\ UNCHANGED <<groqVars, gosVars, pipeVars, fifoVars, restVars, ioVars, rotVars, gateVars, prioVars, shutVars, authVars, fetchVars, procVars, rvVars, ndVars, ftVars>>
SpecBt == InitBt /\ [][NextBt]_vars

InitFt == FtInit /\ GroqIdle /\ GosIdle /\ PipeIdle /\ FifoIdle /\ RestIdle /\ IoIdle /\ RotIdle /\ GateIdle /\ PrioIdle /\ ShutIdle /\ AuthIdle /\ FetchIdle /\ ProcIdle /\ RvIdle /\ NdIdle /\ BtIdle
NextFt ==
    \/ ftThresholdMet
          /\ UNCHANGED <<groqVars, gosVars, pipeVars, fifoVars, restVars, ioVars, rotVars, gateVars, prioVars, shutVars, authVars, fetchVars, procVars, rvVars, ndVars, btVars>>
    \/ ftNoSection
          /\ UNCHANGED <<groqVars, gosVars, pipeVars, fifoVars, restVars, ioVars, rotVars, gateVars, prioVars, shutVars, authVars, fetchVars, procVars, rvVars, ndVars, btVars>>
    \/ ftProcessed
          /\ UNCHANGED <<groqVars, gosVars, pipeVars, fifoVars, restVars, ioVars, rotVars, gateVars, prioVars, shutVars, authVars, fetchVars, procVars, rvVars, ndVars, btVars>>
    \/ ftCatch
          /\ UNCHANGED <<groqVars, gosVars, pipeVars, fifoVars, restVars, ioVars, rotVars, gateVars, prioVars, shutVars, authVars, fetchVars, procVars, rvVars, ndVars, btVars>>
SpecFt == InitFt /\ [][NextFt]_vars

\* ---------------------------------------------------------------------------
\* C1. Quota safety: whatever dispatches were made, no credential's
\* tokensUsed exceeds its dailyLimit between two resets.
\* ---------------------------------------------------------------------------
C1_QuotaSafety == \A i \in KeyIdx : clients[i].tokensUsed <= dailyLimit

\* ---------------------------------------------------------------------------
\* C2. Completeness of what is published: every id in a section list
\* section:{s}:articles names a stored document whose aiCommentary is a
\* non-empty text (absent, null and the empty string all count as
\* incomplete).  The top-N list homepage:top20 has no writer that runs (its
\* only pushToList call follows a return), so it stays empty.
\* ---------------------------------------------------------------------------
C2_PublishedComplete ==
    \A s \in Sections : \A id \in Range(sectionList[s]) :
        store[id] # NoDoc /\ store[id].comm = "text"

\* ---------------------------------------------------------------------------
\* C3. Every value held under article:{id}, whichever writer stored it
\* (fetcher, queue worker, refresh service, batch publisher, article read
\* path), has a non-empty aiCommentary.
\* ---------------------------------------------------------------------------
C3_CachedArticleComplete ==
    \A id \in ArticleIds : cacheArticle[id] \in {"none", "text"}

\* ---------------------------------------------------------------------------
\* C4. getArticlesBySection (and getTopStories, which returns its result)
\* returns only articles with a non-empty aiCommentary, whether the answer
\* comes from the cached page section:{s}:{skip}:{limit} or from the store.
\* ---------------------------------------------------------------------------
C4_ServedComplete == \A a \in served : a[2] = "text"

\* ---------------------------------------------------------------------------
\* C5. Job idempotency: for every article id at most one job is waiting,
\* active or delayed, that job is the one named commentary-{id}, and
\* commentary:{id} is written at most once, exactly once when a job for the
\* id has completed.
\* ---------------------------------------------------------------------------
C5_JobIdempotent ==
    \A id \in ArticleIds :
        LET live == {i \in JobIdx : /\ jobs[i].articleId = id
                                    /\ jobs[i].state \in
                                          {"waiting", "active", "delayed"}}
            done == {i \in JobIdx : /\ jobs[i].articleId = id
                                    /\ jobs[i].state = "completed"}
        IN  /\ Cardinality(live) <= 1
            /\ \A i \in live : jobs[i].jobId = [custom |-> id, auto |-> 0]
            /\ commentaryWrites[id] <= 1
            /\ (done # {} => commentaryWrites[id] = 1)

\* ---------------------------------------------------------------------------
\* C6. FIFO cap: once the calls of manageSectionCacheFIFO made so far have
\* returned (duplicate ids and interleaved calls included), the list holds at
\* most maxArticles ids and no article:{id} key exists for an id that was
\* pushed and is no longer in the list.
\* ---------------------------------------------------------------------------
FifoPushed == UNION {Range(fifoLog[i]) : i \in 1 .. Len(fifoLog)}

C6_FifoCap ==
    FifoQuiet =>
        /\ Len(fifoList) <= FifoCap
        /\ \A id \in FifoPushed \ Range(fifoList) : id \notin fifoKeys

\* ---------------------------------------------------------------------------
\* C7. With a cap of 3, pushing [a, b, c, d] into an empty list leaves
\* [b, c, d], removes article:a and keeps article:b, article:c and
\* article:d; and in general, once the calls have returned, every id that
\* remains in the list still has its article:{id} key.
\* ---------------------------------------------------------------------------
C7_Scenario ==
    (FifoQuiet /\ FifoCap = 3 /\ fifoLog = << <<"a", "b", "c", "d">> >>)
        => (fifoList = <<"b", "c", "d">> /\ fifoKeys = {"b", "c", "d"})

C7_RemainingKeepKey ==
    FifoQuiet => \A id \in Range(fifoList) : id \in fifoKeys

C7_FifoEviction == C7_Scenario /\ C7_RemainingKeepKey

\* ---------------------------------------------------------------------------
\* C12. Reset semantics: from the midnight reset until the first operation
\* that begins after it, every credential's tokensUsed is 0 and every
\* credential is available.
\* ---------------------------------------------------------------------------
C12_ResetSemantics ==
    dispatches = 0 =>
        \A i \in KeyIdx : clients[i].tokensUsed = 0 /\ clients[i].isAvailable

\* ---------------------------------------------------------------------------
\* C13. Rate-limit failover: a dispatch whose credential answered with a
\* rate-limit signal succeeds whenever some eligible credential is not
\* rate limited by the provider (the retries go on, up to N - 1 of them).
\* ---------------------------------------------------------------------------
C13_RateLimitFailover ==
    (lastDispatch.rateLimited /\ lastDispatch.servable)
        => lastDispatch.result = "ok"

\* ---------------------------------------------------------------------------
\* C14. With no eligible credential, the call is sent on a credential of
\* least usage; and when that credential answers with a rate-limit signal
\* the caller gets RATE_LIMIT_ALL_KEYS.
\* ---------------------------------------------------------------------------
C14_LastResort ==
    [][\A p \in GroqCalls :
          /\ (/\ groqCall[p].pc = "idle"
              /\ groqCall'[p].pc = "first"
              /\ ~groqCall'[p].eligible)
                => \A j \in KeyIdx :
                      clients[groqCall'[p].idx].tokensUsed
                          <= clients[j].tokensUsed
          /\ (/\ groqCall[p].pc = "first"
              /\ ~groqCall[p].eligible
              /\ groqCall[p].idx \in limited
              /\ groqCall'[p].pc = "idle")
                => lastDispatch'.result = "RATE_LIMIT_ALL_KEYS"]_vars

\* ---------------------------------------------------------------------------
\* C15. The usage counters account for every successful dispatch: the total
\* of tokensUsed that getStats reports equals the sum of the tokens of the
\* successful calls since the last reset, calls that succeeded on another
\* credential after a rate-limit failover included.
\* ---------------------------------------------------------------------------
C15_UsageTracked == totalTokensUsed = successTokens

\* ---------------------------------------------------------------------------
\* C8. getOrSet never invokes fetchFn more than once per call, on every path
\* (hit, miss, cache read failure, setex failure after a fetch, fetchFn
\* throwing).
\* ---------------------------------------------------------------------------
C8_FetchAtMostOnce == \A p \in Callers : gosCnt[p] <= 1

\* ---------------------------------------------------------------------------
\* C9. Single-flight: when the calls of a round overlap in time and all find
\* k absent, fetchFn is invoked exactly once in total and every caller
\* receives that one result.
\* ---------------------------------------------------------------------------
C9_SingleFlight ==
    (/\ gosAbsent0
     /\ gosOverlap
     /\ \A p \in Callers : gosPc[p] = "done" /\ gosMissed[p])
    => (/\ gosTotal = 1
        /\ \A p, q \in Callers : gosResult[p] = gosResult[q])

\* ---------------------------------------------------------------------------
\* C10. A fetchFn error propagates and a cache-layer error never masks the
\* fetch outcome: a call whose fetchFn succeeded returns that result even if
\* the cache read or write failed, a call rejects only with an error of
\* fetchFn, and a call whose fetchFn failed rejects.
\* ---------------------------------------------------------------------------
C10_FetchOutcomeNotMasked ==
    \A p \in Callers :
        gosPc[p] = "done" =>
            /\ (gosFirst[p] \in FetchValues => gosResult[p] \in FetchValues)
            /\ (gosResult[p] = "threw" => gosLast[p] = "throw")
            /\ (gosLast[p] = "throw" => gosResult[p] = "threw")

\* ---------------------------------------------------------------------------
\* C11. Key/value round trip: a get(k) that immediately follows setex(k, t, v)
\* returns v, in every state of the shards and also when k was written
\* earlier with another value.
\* ---------------------------------------------------------------------------
C11_RoundTrip ==
    (redisLast.op = "get" /\ redisLast.value # NoValue)
        => redisLast.result = redisLast.value

\* ---------------------------------------------------------------------------
\* C16. Keyed routing consistency: two keyed operations on the same key that
\* find the same set of available shards resolve to the same shard.
\* ---------------------------------------------------------------------------
C16_RoutingConsistent ==
    [][\A k \in RedisKeys :
          (keyRoute[k].shard # 0 /\ keyRoute'[k].avail = keyRoute[k].avail)
              => keyRoute'[k].shard = keyRoute[k].shard]_vars

\* ---------------------------------------------------------------------------
\* C18. Observability of an exhausted shard: a shard that was routed its full
\* daily quota is reported as dead by getStats.
\* ---------------------------------------------------------------------------
C18_ExhaustedReportedDead ==
    \A i \in Shards :
        getStats[i].dailyRemaining = 0 => getStats[i].dead

\* ---------------------------------------------------------------------------
\* C17. Shard quota: a shard whose dailyRequests reached the quota is sent no
\* operation until its counter resets, and no shard's dailyRequests ever
\* exceeds the quota.
\* ---------------------------------------------------------------------------
C17_ShardQuota ==
    /\ \A i \in Shards : ioDaily[i] <= DAILY_LIMIT_PER_INSTANCE
    /\ ioLast.index # 0 => ioLast.before < DAILY_LIMIT_PER_INSTANCE

\* ---------------------------------------------------------------------------
\* C19. Round-robin rotation: the index stays within the section list, and
\* any len(sections) consecutive ticks process every section exactly once.
\* ---------------------------------------------------------------------------
C19_RoundRobin ==
    /\ currentSectionIndex \in 0 .. (Len(sections) - 1)
    /\ \A i \in 1 .. Len(rotLog) :
          i + Len(sections) - 1 <= Len(rotLog)
              => Cardinality({rotLog[j] : j \in i .. (i + Len(sections) - 1)})
                     = Len(sections)

\* ---------------------------------------------------------------------------
\* C20. Serial scheduler: at no time are two processNextSection runs in
\* progress, whichever of the timer, start() and the cron endpoint began them.
\* ---------------------------------------------------------------------------
C20_NoConcurrentRuns ==
    Cardinality({p \in Runs : rotRun[p].pc # "idle"}) <= 1

\* the articles of section s whose aiCommentary is a non-empty text
EnrichedCount(s) ==
    Cardinality({u \in Urls : u[1] = s /\ gateStore[u] = "text"})

\* ---------------------------------------------------------------------------
\* C22. checkThreshold reports met = (enriched articles of the section >=
\* threshold) for each known section and thresholdMet exactly when every
\* section is met; absent, null and empty commentary is never counted.
\* ---------------------------------------------------------------------------
C22_ThresholdCounts ==
    LET status == checkThreshold(gateStore, TRUE)
    IN  /\ \A s \in GateSections :
              /\ status.sections[s].count = EnrichedCount(s)
              /\ status.sections[s].met = (EnrichedCount(s) >= THRESHOLD_PER_SECTION)
        /\ status.thresholdMet =
              (\A s \in GateSections : EnrichedCount(s) >= THRESHOLD_PER_SECTION)

\* ---------------------------------------------------------------------------
\* C23. While the threshold gate is closed, no step of the fetcher or of the
\* batch publisher adds an article:{id} key or an entry of a section list.
\* ---------------------------------------------------------------------------
C23_GateClosedNoAdmission ==
    [][(\E s \in GateSections : EnrichedCount(s)' < THRESHOLD_PER_SECTION)
          => (gateCached' \subseteq gateCached /\ gateListed' \subseteq gateListed)]_vars

\* ---------------------------------------------------------------------------
\* C24. Cold start: from an empty store, with an upstream that answers the
\* same items on every call and every AI call succeeding, after
\* len(sections) * threshold ticks every section has threshold enriched
\* articles and the gate is open.
\* ---------------------------------------------------------------------------
C24_ColdStartProgress ==
    (coldStart /\ gateTicks = MaxGateTicks)
        => /\ \A s \in GateSections : EnrichedCount(s) = THRESHOLD_PER_SECTION
           /\ thresholdMet

\* ---------------------------------------------------------------------------
\* C21. Start and stop are idempotent: at most one interval timer is active
\* and one is active exactly while the worker is running; a start() while
\* running begins no run and sets no timer; a stop() while stopped changes
\* nothing; after a stop() no timer is left to schedule a tick.
\* ---------------------------------------------------------------------------
C21_StartStopIdempotent ==
    [][/\ Cardinality(rotTimers') <= 1
       /\ (rotTimers' # {}) = isRunning'
       /\ rotLast' \in {"start-ignored", "stop-ignored"}
             => UNCHANGED <<currentSectionIndex, isRunning, rotRun, rotLog,
                            rotTimers, intervalId>>
       /\ rotLast' = "stop" => rotTimers' = {}]_vars

\* a second start() was ignored after the worker was started, stopped and
\* started again
C21_Witness ==
    /\ rotLast = "start-ignored"
    /\ intervalId > 1
    /\ rotTimers = {intervalId}

\* ---------------------------------------------------------------------------
\* C25. Fallback on terminal failure: a job whose enrichment fails on every
\* attempt, also when the balancer reports every credential exhausted, ends
\* with the fallback commentary written: no job ends in the failed state.
C25_FallbackOnTerminalFailure ==
    \A i \in JobIdx : jobs[i].state # "failed"

\* ---------------------------------------------------------------------------
\* C26. Admission rejects without enqueuing: a call of addToQueue for an
\* article without id, or for an article whose store document already has
\* aiCommentary, leaves the queue contents unchanged.
C26_AdmissionRejects ==
    [][\A id \in ArticleIds \cup {NoId}, lookup \in LookupOutcomes :
          (/\ addToQueue(id, lookup)
           /\ id = NoId \/ Truthy(store[id].comm))
          => jobs' = jobs]_vars

\* ---------------------------------------------------------------------------
\* C27. Job priority: calculatePriority yields 1 for an article younger than
\* 6 h, 2 below 24 h, 3 below 48 h and 5 otherwise, minus 1 (but at least 1)
\* for the sections politics, us, world and business; the result is in 1..10.
\* A submission that passes an explicit priority is enqueued with exactly that
\* priority, any other submission with the calculated one.
C27_JobPriority ==
    LET age == ageHours(prioArticle)
        byAge == IF age < 6 THEN 1
                 ELSE IF age < 24 THEN 2
                 ELSE IF age < 48 THEN 3
                 ELSE 5
        p == calculatePriority(prioArticle)
    IN  /\ p \in 1 .. 10
        /\ prioArticle.section \in highPriorityCategories
              => p = (IF byAge = 1 THEN 1 ELSE byAge - 1)
        /\ toLowerCase(prioArticle.section) \notin highPriorityCategories
              => p = byAge
        /\ prioJob # NoPrioJob =>
              prioJob.opts = (IF prioOptions \in ExplicitPriorities
                              THEN prioOptions ELSE p)

\* a recent politics article submitted without explicit priority has been
\* enqueued with priority 1, the clamped value
C27_Witness ==
    /\ prioJob # NoPrioJob
    /\ prioOptions = NoPriority
    /\ prioArticle.section = "politics"
    /\ ageHours(prioArticle) < 6
    /\ prioJob.opts = 1

\* ---------------------------------------------------------------------------
\* C29. Shutdown ordering: on SIGTERM or SIGINT the components close in the
\* order workers, queue, scheduler, adapters (cache, store): an adapter is
\* closed only after the worker, the queue and the scheduler were, and neither
\* the worker nor the scheduler runs on an adapter that is already closed.
C29_ShutdownOrdering ==
    /\ (Adapters \cap Closed # {})
          => {"worker", "queue", "scheduler"} \subseteq Closed
    /\ "queue" \in Closed => "worker" \in Closed
    /\ lateUse = {}

\* ---------------------------------------------------------------------------
\* C30. Quarantine is one-way within a UTC day: a shard marked dead stays
\* dead until the daily reset; no command and no periodic health check that
\* runs on the same day clears the mark.
RestStep(newDay) ==
    \/ \E pings \in [Shards -> PingOutcomes] : runHealthCheck(newDay, pings)
    \/ \E key \in RedisKeys, value \in RedisValues, out \in RestOutcomes :
          setex(key, value, newDay, out)
    \/ \E key \in RedisKeys, out \in RestOutcomes : get(key, newDay, out)
    \/ \E keys \in DelChoices, out \in RestOutcomes : del(keys, newDay, out)
    \/ \E out \in RestOutcomes : ping(newDay, out)

C30_QuarantineOneWay ==
    [][(RestStep(FALSE) /\ ~RestStep(TRUE))
          => \A s \in Shards : instances[s].dead => instances'[s].dead]_vars

\* ---------------------------------------------------------------------------
\* C31. An authentication failure (401/403) on a credential is permanent for
\* the process lifetime: no later dispatch selects that credential, not even
\* after the midnight reset.
C31_AuthFailurePermanent ==
    [][\A p \in GroqCalls :
          DispatchStart(p)
          => GetClient(clients, currentIndex).idx \notin authFailed]_vars

\* ---------------------------------------------------------------------------
\* C32. A RATE_LIMIT error from the AI call on an attempt before the last
\* makes the worker re-raise: the job goes back to the queue for its backoff,
\* and the store, commentary:{articleId} and article:{articleId} are left as
\* they were.
C32_RateLimitReraises ==
    [][\A i \in JobIdx, ai2 \in AiOutcomes :
          (/\ jobs[i].lookup = "miss"
           /\ jobs[i].attemptsMade < Attempts - 1
           /\ WorkerFinish(i, "rateLimit", ai2))
          => /\ jobs'[i].state = "delayed"
             /\ store' = store
             /\ cacheCommentary' = cacheCommentary
             /\ cacheArticle' = cacheArticle]_vars

\* ---------------------------------------------------------------------------
\* C33. The fetcher never persists an incomplete article: every document that
\* fetchAndProcessSection writes carries non-empty aiCommentary, and when the
\* generation throws or returns nothing for an item, the store is left as it
\* was and the loop goes on with the next item.
C33_NoIncompleteArticle ==
    [][/\ \A u \in FUrls : \A k \in 1 .. Len(fDocs'[u]) :
              (k > Len(fDocs[u]) \/ fDocs'[u][k] # fDocs[u][k])
              => fDocs'[u][k] = "text"
       /\ \A p \in FetchRuns :
              (/\ fRun[p].pc = "ai"
               /\ fRun'[p] # fRun[p]
               /\ fRun'[p].commentary # "text")
              => /\ fDocs' = fDocs
                 /\ fRun'[p].pos = fRun[p].pos + 1
                 /\ fRun'[p].pc \in {"find", "clear"}]_vars

\* a run whose generation failed for its first item and which then saved its
\* second item
C33_Witness ==
    \E p \in FetchRuns :
        /\ fRun[p].items = <<"u1", "u2">>
        /\ fRun[p].failed = {"u1"}
        /\ fRun[p].wroteFor = {"u2"}
        /\ fDocs["u1"] = <<>>
        /\ fDocs["u2"] = <<"text">>

C35_TempIdsBypassStore ==
    startsWith(procJob.articleId, TempPrefix)
    => \A k \in 1 .. Len(procLog) :
          /\ procLog[k][1] = "cache"
          /\ procLog[k][2] \in {<<"commentary", procJob.articleId>>,
                                <<"article", procJob.articleId>>}

\* a job with a temporary id has failed twice, generated its commentary on
\* the third attempt and completed after the step that updates the store for
\* other ids
C35_Witness ==
    /\ startsWith(procJob.articleId, TempPrefix)
    /\ procJob.pc = "completed"
    /\ procJob.commentary = "text"
    /\ procJob.attemptsMade = Attempts - 1
    /\ Len(procLog) = 2

\* ---------------------------------------------------------------------------
\* C36. Shard revival: while days keep turning and the shards keep answering,
\* every shard is selectable again and again; no shard stays excluded from
\* routing forever, in particular not after one transient command error.
\* ---------------------------------------------------------------------------
C36_ShardRevival == \A s \in Shards : []<>RvSelectable(s)

\* ---------------------------------------------------------------------------
\* C37. The in-process map serves a read only when no shard was available: a
\* get that reaches a shard and misses there returns null, not an in-process
\* value, and leaves the in-process map unchanged.
\* ---------------------------------------------------------------------------
C37_FallbackOnlyWhenNoShard ==
    [][\A k \in RedisKeys, d \in BOOLEAN :
          LET s == getInstanceForKey(checkDailyReset(instances, d), k)
          IN  (get(k, d, "ok") /\ s # 0 /\ shardData[s][k] = NoValue)
                 => /\ redisLast'.result = NoValue
                    /\ memoryCache' = memoryCache]_vars

\* ---------------------------------------------------------------------------
\* C38. One tryAllKeys call attempts each key at most once and throws only
\* after all the distinct keys have failed, also while other tryAllKeys calls
\* are in progress and share the rotation index.
\* ---------------------------------------------------------------------------
C38_EachKeyOnce ==
    \A c \in NdCallers :
        LET t == ndCall[c].tried
        IN  /\ \A i, j \in 1 .. Len(t) : i # j => t[i] # t[j]
            /\ ndCall[c].pc = "threw" => {t[i] : i \in 1 .. Len(t)} = NdKeys

\* ---------------------------------------------------------------------------
\* C39. The batch publisher keeps at most one timer alive, and after stop()
\* no timer is left and no section update runs until start() is called again.
\* ---------------------------------------------------------------------------
C39_OneTimer ==
    /\ Cardinality(btTimers) <= 1
    /\ btStopped => btTimers = {} /\ btLast # "update"

\* ---------------------------------------------------------------------------
\* C40. fillThresholdWorker terminates the process only after MAX_RETRIES
\* consecutive failed passes: a pass that completes without throwing resets
\* the retry counter, so retries counts the failures since the last such pass.
\* ---------------------------------------------------------------------------
C40_ExitAfterConsecutiveFailures ==
    /\ ftExited => ftStreak >= MAX_RETRIES
    /\ ~ftExited => ftRetries = ftStreak

============================================================================
